---------------------------- MODULE Spec2Model ----------------------------
(***************************************************************************)
(* Model of fmriprep/workflows/bold/resampling.py.                         *)
(*                                                                         *)
(* The file builds nipype dataflow graphs.  The model keeps the graphs as  *)
(* the connect() lists of the source (sets of edges), the helper functions *)
(* of the source as operators, and runs the graphs with the scheduling     *)
(* rules of the nipype engine: iterables replicate the sub-graph below     *)
(* the iterable node once per value, a node runs once every node feeding   *)
(* it is done, a JoinNode gathers the replicas of its join source in       *)
(* iterable order, a crashed node takes its descendants out of the run.    *)
(*                                                                         *)
(* Strings that the code splits or joins are kept as their parts:          *)
(* "MNIPediatricAsym:cohort-6" is <<"MNIPediatricAsym", "cohort-6">>, and  *)
(* an underscore-joined identifier is [us |-> parts].  Dictionaries are    *)
(* functions whose domain is the set of keys present.  Resolutions are     *)
(* the strings "1", "2", "3" and "native".                                 *)
(***************************************************************************)
EXTENDS Integers, Sequences, FiniteSets, TLC

VARIABLES
    cfg,     \* build-time parameters and bound inputs of the workflow built
    graph,   \* the workflow built from them, expanded for execution
    st,      \* node instance -> "pending" | "done" | "failed" | "skipped"
    val,     \* node instance -> outputs (field name -> value), once done
    calls,   \* node instance -> external tool invocations the node made
    arrived  \* replicas that fed a JoinNode, in order of completion

vars == <<cfg, graph, st, val, calls, arrived>>

(***************************************************************************)
(* Bounds of the model.                                                    *)
(***************************************************************************)
MaxSpaces == 2      \* requested standard spaces per run
NVols == 2          \* volumes of the BOLD series

(***************************************************************************)
(* Dictionaries and lists.                                                 *)
(***************************************************************************)
Get(d, k, default) == IF k \in DOMAIN d THEN d[k] ELSE default

Put(d, k, v) == [x \in DOMAIN d \cup {k} |-> IF x = k THEN v ELSE d[x]]

Pop(d, k) == [x \in DOMAIN d \ {k} |-> d[x]]

EmptyDict == [x \in {} |-> 0]

Range(s) == {s[i] : i \in DOMAIN s}

IndexOf(s, x) == CHOOSE i \in DOMAIN s : s[i] = x /\ \A j \in 1..(i - 1) : s[j] # x

NoDup(s) == \A i, j \in DOMAIN s : s[i] = s[j] => i = j

(***************************************************************************)
(* Python values that are either one item or a list of items (isinstance   *)
(* decides): One(x) and List(xs).                                          *)
(***************************************************************************)
One(x) == [t |-> "one", xs |-> <<x>>]

List(xs) == [t |-> "list", xs |-> xs]

\* _first
_first(inlist) == inlist[1]

\* _aslist
_aslist(in_value) == IF in_value.t = "list" THEN in_value ELSE List(<<in_value.xs[1]>>)

\* _is_native
_is_native(in_value) ==
    \/ Get(in_value, "resolution", "None") = "native"
    \/ Get(in_value, "res", "None") = "native"

\* _split_spec: in_target is <<space, spec>>; the template is the part of the
\* space before the first ":".
_split_spec(in_target) ==
    [space |-> in_target[1], template |-> <<in_target[1][1]>>, spec |-> in_target[2]]


(***************************************************************************)
(* _select_template and the TemplateFlow lookup it makes.                  *)
(*                                                                         *)
(* get_template_specs(template, template_spec) finds the one image of the  *)
(* template that matches the spec and raises RuntimeError when there is    *)
(* none; avail is the set of resolutions the archive holds for the         *)
(* template.  A lookup result is [ok, image]; _select_template returns     *)
(* [ok, out, lookups], lookups being the queries made, in order.           *)
(***************************************************************************)
TemplateImage(template, specs) ==
    [kind |-> "template", template |-> template,
     resolution |-> specs["resolution"], suffix |-> specs["suffix"],
     cohort |-> Get(specs, "cohort", "None")]

NoImage == [kind |-> "none"]

get_template_specs(template, template_spec, avail) ==
    IF template_spec["resolution"] \in avail
    THEN [ok |-> TRUE, image |-> TemplateImage(template, template_spec)]
    ELSE [ok |-> FALSE, image |-> NoImage]

Query(template, specs) == [template |-> template, specs |-> specs]

\* the "Sanitize resolution" line: pop("res") or pop("resolution") or "native",
\* with the pops it makes on the copy of the spec
SanitizedRes(specs) ==
    IF "res" \in DOMAIN specs
    THEN [res |-> specs["res"], specs |-> Pop(specs, "res")]
    ELSE IF "resolution" \in DOMAIN specs
         THEN [res |-> specs["resolution"], specs |-> Pop(specs, "resolution")]
         ELSE [res |-> "native", specs |-> specs]

\* the lookup with resolution 1 tried first and resolution 2 as the fallback
SelectTemplateOneFirst(template, avail) ==
    LET tpl == <<template[1][1]>>
        specs0 == Put(template[2], "suffix", Get(template[2], "suffix", "T1w"))
        san == SanitizedRes(specs0)
        exact == Put(san.specs, "resolution", san.res)
        first == Put(san.specs, "resolution", "1")
        second == Put(san.specs, "resolution", "2")
        rx == get_template_specs(tpl, exact, avail)
        r2 == get_template_specs(tpl, first, avail)
        r1 == get_template_specs(tpl, second, avail)
    IN  IF san.res # "native"
        THEN [ok |-> rx.ok, out |-> rx.image, lookups |-> <<Query(tpl, exact)>>]
        ELSE IF r2.ok
             THEN [ok |-> TRUE, out |-> r2.image, lookups |-> <<Query(tpl, first)>>]
             ELSE [ok |-> r1.ok, out |-> r1.image,
                   lookups |-> <<Query(tpl, first), Query(tpl, second)>>]

_select_template(template, avail) ==
    LET tpl == <<template[1][1]>>
        specs0 == Put(template[2], "suffix", Get(template[2], "suffix", "T1w"))
        san == SanitizedRes(specs0)
        exact == Put(san.specs, "resolution", san.res)
        first == Put(san.specs, "resolution", "2")
        second == Put(san.specs, "resolution", "1")
        rx == get_template_specs(tpl, exact, avail)
        r2 == get_template_specs(tpl, first, avail)
        r1 == get_template_specs(tpl, second, avail)
    IN  IF san.res # "native"
        THEN [ok |-> rx.ok, out |-> rx.image, lookups |-> <<Query(tpl, exact)>>]
        ELSE IF r2.ok
             THEN [ok |-> TRUE, out |-> r2.image, lookups |-> <<Query(tpl, first)>>]
             ELSE [ok |-> r1.ok, out |-> r1.image,
                   lookups |-> <<Query(tpl, first), Query(tpl, second)>>]

(***************************************************************************)
(* Library interfaces the graphs are built from.                           *)
(* A run of an interface is [ok, out, calls]: out maps the output fields   *)
(* to values, calls lists the external tool invocations made.              *)
(***************************************************************************)
Ok(out, made) == [ok |-> TRUE, out |-> out, calls |-> made]

Crash(made) == [ok |-> FALSE, out |-> EmptyDict, calls |-> made]

Has(in, fields) == fields \subseteq DOMAIN in

\* niworkflows format_reference: the space split at ":", plus "res-<res>" when
\* the spec gives res or resolution, joined with "_"
ResToken(res) ==
    CASE res = "1" -> "res-1"
      [] res = "2" -> "res-2"
      [] res = "3" -> "res-3"
      [] OTHER -> "res-native"

format_reference(in_tuple) ==
    LET res == IF "res" \in DOMAIN in_tuple[2] THEN in_tuple[2]["res"]
               ELSE Get(in_tuple[2], "resolution", "None")
    IN  [us |-> IF res # "None" THEN Append(in_tuple[1], ResToken(res))
                ELSE in_tuple[1]]

\* a selection that falls back to the first entry when key is not in keys
KeySelectFirst(in, fields) ==
    IF /\ Has(in, {"key", "keys"} \cup fields)
       /\ \A f \in fields : Len(in[f]) = Len(in["keys"])
    THEN Ok([f \in fields \cup {"key"} |->
                IF f = "key" THEN in["key"]
                ELSE IF in["key"] \in Range(in["keys"])
                     THEN in[f][IndexOf(in["keys"], in["key"])]
                     ELSE in[f][1]], <<>>)
    ELSE Crash(<<>>)

\* niworkflows KeySelect(fields): the entry of every field at the index of key
\* in keys; ValueError when keys repeats an entry, key is not in keys, or a
\* field is not as long as keys
KeySelect(in, fields) ==
    IF /\ Has(in, {"key", "keys"} \cup fields)
       /\ NoDup(in["keys"])
       /\ in["key"] \in Range(in["keys"])
       /\ \A f \in fields : Len(in[f]) = Len(in["keys"])
    THEN Ok([f \in fields \cup {"key"} |->
                IF f = "key" THEN in["key"]
                ELSE in[f][IndexOf(in["keys"], in["key"])]], <<>>)
    ELSE Crash(<<>>)

\* the slots with the last two taken in the other order
MergeSlotsSwapped == <<"in1", "in2", "in4", "in3">>

\* nipype utility Merge(numinputs): in1..inN in slot order, undefined slots
\* skipped, list values flattened into the result
MergeSlots == <<"in1", "in2", "in3", "in4">>

RECURSIVE MergeFrom(_, _, _)
MergeFrom(in, i, numinputs) ==
    IF i > numinputs THEN <<>>
    ELSE (IF MergeSlots[i] \notin DOMAIN in THEN <<>>
          ELSE IF "xs" \in DOMAIN in[MergeSlots[i]] THEN in[MergeSlots[i]].xs
          ELSE <<in[MergeSlots[i]]>>)
         \o MergeFrom(in, i + 1, numinputs)

\* a Merge that returns its slots last to first
MergeReversed(in, numinputs) ==
    LET m == MergeFrom(in, 1, numinputs)
    IN  Ok([f \in {"out"} |-> List([i \in DOMAIN m |-> m[Len(m) + 1 - i]])], <<>>)

Merge(in, numinputs) == Ok([f \in {"out"} |-> List(MergeFrom(in, 1, numinputs))], <<>>)

(***************************************************************************)
(* Images, transforms and the resampling interfaces.                       *)
(*                                                                         *)
(* A transform is [id, src, dst, n, vol]: it maps frame src to frame dst;  *)
(* n is the number of transforms its file holds (0 for a displacement      *)
(* field, NVols for the per-volume head-motion file); vol is the volume a  *)
(* split-off transform belongs to.  An image is [kind, frame, vol, data,   *)
(* passes, interp, grid]: data its voxel values in units of 0.0001,        *)
(* passes the number of interpolations it went through.                    *)
(***************************************************************************)
Xfm(id, src, dst, n) == [id |-> id, src |-> src, dst |-> dst, n |-> n, vol |-> 0]

Img(kind, frame, vol, data) ==
    [kind |-> kind, frame |-> frame, vol |-> vol, data |-> data, passes |-> 0,
     interp |-> "none", grid |-> [kind |-> "own"]]

\* The interpolation kernel is an external operator.  What it returns is the
\* environment's choice, fixed for a run by undershoot: the values of the input,
\* or values with the negative undershoots sinc-family interpolation leaves.
UndershootData == << <<-3000, -1>>, <<0, 50000>> >>

Kernel(img, interp, undershoot) ==
    IF undershoot /\ interp = "LanczosWindowedSinc" /\ img.vol \in DOMAIN UndershootData
    THEN UndershootData[img.vol]
    ELSE img.data

CohortToken(cohort) == IF cohort = "6" THEN "cohort-6" ELSE "cohort-x"

\* the frame of a reference image or sampling grid
RefFrame(ref) == ref.frame

AntsCall(img, ref, chain, interp) ==
    [tool |-> "antsApplyTransforms", input |-> img, reference |-> ref,
     transforms |-> chain, interpolation |-> interp]

Resampled(img, ref, interp, undershoot) ==
    [img EXCEPT !.frame = RefFrame(ref), !.data = Kernel(img, interp, undershoot),
                !.passes = @ + 1, !.interp = interp, !.grid = ref]

\* ApplyTransforms: one image, one call
ApplyTransforms(in, undershoot) ==
    IF Has(in, {"input_image", "reference_image", "transforms", "interpolation"})
    THEN Ok([f \in {"output_image"} |->
                Resampled(in["input_image"], in["reference_image"],
                          in["interpolation"], undershoot)],
            <<AntsCall(in["input_image"], in["reference_image"],
                       in["transforms"].xs, in["interpolation"])>>)
    ELSE Crash(<<>>)

\* niworkflows MultiApplyTransforms: _arrange_xfms gives every volume its own
\* chain (a file holding one transform per volume is split, any other transform
\* is repeated for every volume; a file holding another number of transforms
\* is a RuntimeError), then one call per volume
ArrangedFor(chain, v, num_files) ==
    [i \in DOMAIN chain |->
        IF chain[i].n > 1 THEN [chain[i] EXCEPT !.n = 1, !.vol = v] ELSE chain[i]]

MultiApplyTransforms(in, undershoot) ==
    IF ~Has(in, {"input_image", "reference_image", "transforms", "interpolation"})
    THEN Crash(<<>>)
    ELSE LET imgs == in["input_image"]
             chain == in["transforms"].xs
             num_files == Len(imgs)
         IN  IF \E i \in DOMAIN chain : chain[i].n > 1 /\ chain[i].n # num_files
             THEN Crash(<<>>)
             ELSE Ok([f \in {"out_files"} |->
                        [v \in 1..num_files |->
                            Resampled(imgs[v], in["reference_image"],
                                      in["interpolation"], undershoot)]],
                     [v \in 1..num_files |->
                        AntsCall(imgs[v], in["reference_image"],
                                 ArrangedFor(chain, v, num_files),
                                 in["interpolation"])])

\* fmriprep.interfaces.maths.Clip: values below minimum are set to minimum
ClipValue(v, minimum) == IF v < minimum THEN minimum ELSE v

Clip(img, minimum) == [img EXCEPT !.data = [i \in DOMAIN @ |-> ClipValue(@[i], minimum)]]

\* a MapNode that hands its elements on unclipped
ClipMapNodeOff(in) ==
    IF Has(in, {"in_file", "minimum"})
    THEN Ok([f \in {"out_file"} |-> in["in_file"]], <<>>)
    ELSE Crash(<<>>)

\* the MapNode over in_file: one Clip per element, results in the same order
ClipMapNode(in) ==
    IF Has(in, {"in_file", "minimum"})
    THEN Ok([f \in {"out_file"} |->
                [i \in DOMAIN in["in_file"] |-> Clip(in["in_file"][i], in["minimum"])]],
            <<>>)
    ELSE Crash(<<>>)

\* niworkflows nilearn Merge: the volumes concatenated into one series
NilearnMerge(in) ==
    IF Has(in, {"in_files"})
    THEN Ok([f \in {"out_file"} |-> [kind |-> "series", vols |-> in["in_files"]]], <<>>)
    ELSE Crash(<<>>)

\* niworkflows GenerateSamplingReference: the grid of fixed_image, at the
\* resolution of moving_image when keep_native
GenerateSamplingReference(in) ==
    IF Has(in, {"moving_image", "fixed_image"})
    THEN Ok([f \in {"out_file"} |->
                [kind |-> "grid",
                 frame |-> IF in["fixed_image"].cohort = "None"
                           THEN in["fixed_image"].template
                           ELSE Append(in["fixed_image"].template,
                                       CohortToken(in["fixed_image"].cohort)),
                 fixed |-> in["fixed_image"],
                 native |-> Get(in, "keep_native", FALSE)]], <<>>)
    ELSE Crash(<<>>)

\* niworkflows init_bold_reference_wf(pre_mask=True), taken as one node
BoldReferenceWf(in) ==
    IF Has(in, {"inputnode.bold_file", "inputnode.bold_mask"})
    THEN Ok([f \in {"outputnode.ref_image"} |->
                [kind |-> "boldref", of |-> in["inputnode.bold_file"].vols[1].grid,
                 mask |-> in["inputnode.bold_mask"].grid]], <<>>)
    ELSE Crash(<<>>)

\* niworkflows GenerateCifti
GenerateCifti(in) ==
    IF Has(in, {"bold_file", "surface_bolds", "TR", "grayordinates"})
    THEN Ok([f \in {"out_file", "out_metadata"} |->
                [kind |-> "cifti", bold_file |-> in["bold_file"],
                 surface_bolds |-> in["surface_bolds"],
                 grayordinates |-> in["grayordinates"]]], <<>>)
    ELSE Crash(<<>>)

(***************************************************************************)
(* The surface interfaces (FreeSurfer, Connectome Workbench and GIFTI      *)
(* tools) are external programs.  What the graphs need of them is which    *)
(* inputs they were run on: a run returns, per output field, a record of   *)
(* the interface, the field and the inputs, and counts as one call.        *)
(***************************************************************************)
ToolOutputs(tool) ==
    CASE tool = "FreeSurferSource" -> {"T1"}
      [] tool = "CreateROI" -> {"roi_file"}
      [] tool = "SurfaceResample" -> {"surface_out"}
      [] tool = "GoodvoxelsWf" -> {"outputnode.goodvoxels_mask", "outputnode.goodvoxels_ribbon"}
      [] OTHER -> {"out_file"}

ToolResult(tool, field, in) == [kind |-> tool, field |-> field, inputs |-> in]

ExternalTool(tool, in, mandatory) ==
    IF Has(in, mandatory)
    THEN Ok([f \in ToolOutputs(tool) |-> ToolResult(tool, f, in)],
            <<[tool |-> tool, inputs |-> in]>>)
    ELSE Crash(<<>>)

\* a MapNode: one run per element of the iterfield input, results in the
\* order of the elements
MapTool(tool, in, mandatory, iterfield) ==
    IF Has(in, mandatory \cup {iterfield})
    THEN LET each == [i \in DOMAIN in[iterfield] |-> [in EXCEPT ![iterfield] = @[i]]]
         IN  Ok([f \in ToolOutputs(tool) |->
                    [i \in DOMAIN each |-> ToolResult(tool, f, each[i])]],
                [i \in DOMAIN each |-> [tool |-> tool, inputs |-> each[i]]])
    ELSE Crash(<<>>)

\* select_target, the function of node targets in init_bold_surf_wf
select_target(subject_id, space) == IF space = "fsnative" THEN subject_id ELSE space

\* _itk2lta: in_file rewritten as an LTA with src_file as reference and
\* dst_file as moving image
_itk2lta(in_file, src_file, dst_file) ==
    [kind |-> "lta", of |-> in_file, reference |-> src_file, moving |-> dst_file]

\* _select_surfaces.  A file is [hemi, name, density]; its basename starts
\* with the hemisphere letter, so sorting by basename puts the left files
\* before the right ones and keeps the order within a hemisphere.
SortedByBasename(files) ==
    SelectSeq(files, LAMBDA f : f.hemi = "L") \o SelectSeq(files, LAMBDA f : f.hemi = "R")

\* os.path.basename of a surface file, cut into words: "midthickness" is
\* "mid" followed by "thickness"
Basename(file) ==
    <<"sub-01_hemi-", file.hemi, "_">>
    \o (IF file.name = "midthickness" THEN <<"mid", "thickness">> ELSE <<file.name>>)
    \o <<".gii">>

\* the alternative of (white|pial|midthickness|thickness) that matches at word
\* s, tried in that order
NameAt(words, s) ==
    CASE words[s] \in {"white", "pial", "thickness"} -> words[s]
      [] words[s] = "mid" /\ s + 1 \in DOMAIN words /\ words[s + 1] = "thickness" ->
            "midthickness"
      [] OTHER -> "None"

\* a classification by the word "thickness" anywhere in the basename
find_name_anywhere(file) ==
    LET words == Basename(file)
    IN  IF "thickness" \in Range(words) THEN "thickness"
        ELSE IF \E s \in DOMAIN words : NameAt(words, s) # "None"
             THEN NameAt(words, CHOOSE s \in DOMAIN words : NameAt(words, s) # "None")
             ELSE "None"

\* find_name.search on the basename: the leftmost place where one of the
\* names stands at the start or after a character other than "d"
find_name(file) ==
    LET words == Basename(file)
        hits == {s \in DOMAIN words :
                    /\ NameAt(words, s) # "None"
                    /\ s = 1 \/ words[s - 1] \notin {"mid", "inflated"}}
    IN  IF hits = {} THEN "None"
        ELSE NameAt(words, CHOOSE s \in hits : \A t \in hits : s <= t)

SurfaceRoles ==
    <<"white", "pial", "midthickness", "thickness", "sphere", "template_sphere",
      "template_roi">>

\* the output_names of node select_surfaces, matched to the returned tuple
\* position by position
SelectSurfacesOutputNames ==
    <<"white", "pial", "midthickness", "thickness", "sphere_reg", "template_sphere",
      "template_roi">>

_select_surfaces(in) ==
    LET idx == IF in["hemi"] = "L" THEN 0 ELSE 1
        found == in["surfaces"] \o in["morphometrics"]
        container == [r \in Range(SurfaceRoles) |->
            CASE r = "sphere" -> in["spherical_registrations"]
              [] r = "template_sphere" -> in["template_spheres"]
              [] r = "template_roi" -> in["template_rois"]
              [] OTHER -> SelectSeq(found, LAMBDA f : find_name(f) = r)]
        out == [k \in DOMAIN SurfaceRoles |->
                    SortedByBasename(container[SurfaceRoles[k]])[idx + 1]]
    IN  IF \E r \in Range(SurfaceRoles) : Len(container[r]) < idx + 1
        THEN Crash(<<>>)
        ELSE Ok([f \in Range(SelectSurfacesOutputNames) |->
                    out[IndexOf(SelectSurfacesOutputNames, f)]], <<>>)

(***************************************************************************)
(* FSL, as init_goodvoxels_bold_mask_wf calls it.  A volume is an image    *)
(* whose data holds one value per voxel of a one-dimensional grid, in      *)
(* units of 0.0001; a series is [kind, frame, vols].  Every nipype         *)
(* fsl.maths interface is one fslmaths command line: the input, then       *)
(* operations left to right, each "%s" standing for the next operand.      *)
(***************************************************************************)
RECURSIVE IsqrtIn(_, _, _)
IsqrtIn(n, lo, hi) ==
    IF lo >= hi THEN lo
    ELSE LET mid == (lo + hi + 1) \div 2
         IN  IF mid * mid <= n THEN IsqrtIn(n, mid, hi) ELSE IsqrtIn(n, lo, mid - 1)

\* the square root, rounded down
Isqrt(n) == IsqrtIn(n, 0, 40000)

RECURSIVE SumSeq(_)
SumSeq(s) == IF s = <<>> THEN 0 ELSE Head(s) + SumSeq(Tail(s))

\* mean and standard deviation (n - 1 in the denominator) of a list of values
MeanOf(s) == IF s = <<>> THEN 0 ELSE SumSeq(s) \div Len(s)

StdOf(s) ==
    IF Len(s) < 2 THEN 0
    ELSE Isqrt(SumSeq([i \in DOMAIN s |-> (s[i] - MeanOf(s)) * (s[i] - MeanOf(s))])
               \div (Len(s) - 1))

\* a number on the command line
FslNumber(tok) == IF tok = "-1" THEN -10000 ELSE 0

\* a -thr that also zeroes what equals the number
FslVoxelThrStrict(op, a, b) ==
    CASE op = "-sub" -> a - b
      [] op = "-mul" -> (a * b) \div 10000
      [] op = "-div" -> IF b = 0 THEN 0 ELSE (a * 10000) \div b
      [] op = "-thr" -> IF a <= b THEN 0 ELSE a
      [] op = "-uthr" -> IF a > b THEN 0 ELSE a
      [] op = "-mas" -> IF b > 0 THEN a ELSE 0

\* one voxel under a binary operation: -div gives 0 where the divisor is 0,
\* -thr zeroes what is below the number, -uthr what is above it, -mas what
\* lies where the mask is not positive
FslVoxel(op, a, b) ==
    CASE op = "-sub" -> a - b
      [] op = "-mul" -> (a * b) \div 10000
      [] op = "-div" -> IF b = 0 THEN 0 ELSE (a * 10000) \div b
      [] op = "-thr" -> IF a < b THEN 0 ELSE a
      [] op = "-uthr" -> IF a > b THEN 0 ELSE a
      [] op = "-mas" -> IF b > 0 THEN a ELSE 0

\* -s: Gaussian smoothing; on the grid of this model the kernel reaches the
\* two neighbours of a voxel, with weights 1 2 1
FslSmooth(d) ==
    [i \in DOMAIN d |->
        ((IF i - 1 \in DOMAIN d THEN d[i - 1] ELSE 0) + 2 * d[i]
         + (IF i + 1 \in DOMAIN d THEN d[i + 1] ELSE 0)) \div 4]

\* -dilD: a zero voxel takes the value of a non-zero neighbour
FslDilD(d) ==
    [i \in DOMAIN d |->
        IF d[i] # 0 THEN d[i]
        ELSE IF i - 1 \in DOMAIN d /\ d[i - 1] # 0 THEN d[i - 1]
        ELSE IF i + 1 \in DOMAIN d /\ d[i + 1] # 0 THEN d[i + 1]
        ELSE 0]

\* fslmaths: the operations applied to the data left to right
RECURSIVE fslmaths(_, _, _)
fslmaths(d, toks, operands) ==
    IF toks = <<>> THEN d
    ELSE LET op == Head(toks) IN
         IF op \in {"-sub", "-mul", "-div", "-thr", "-uthr", "-mas"}
         THEN LET file == toks[2] = "%s"
                  b == IF file THEN Head(operands)
                       ELSE [i \in DOMAIN d |-> FslNumber(toks[2])]
              IN  fslmaths([i \in DOMAIN d |-> FslVoxel(op, d[i], b[i])],
                           Tail(Tail(toks)), IF file THEN Tail(operands) ELSE operands)
         ELSE IF op = "-s" THEN fslmaths(FslSmooth(d), Tail(Tail(toks)), operands)
         ELSE fslmaths(
                CASE op = "-bin" -> [i \in DOMAIN d |-> IF d[i] > 0 THEN 10000 ELSE 0]
                  [] op = "-dilD" -> FslDilD(d)
                  [] op = "-Tmean" ->
                        [i \in DOMAIN d[1] |-> MeanOf([v \in DOMAIN d |-> d[v][i]])]
                  [] op = "-Tstd" ->
                        [i \in DOMAIN d[1] |-> StdOf([v \in DOMAIN d |-> d[v][i]])],
                Tail(toks), operands)

\* a Threshold that zeroes above the number by default
ThresholdOpAbove(direction) == IF direction = "below" THEN "-uthr" ELSE "-thr"

\* the word Threshold puts before thresh: by default (direction "below") what
\* is below thresh is zeroed
ThresholdOp(direction) == IF direction = "below" THEN "-thr" ELSE "-uthr"

\* the word fslmaths takes for an operation of UnaryMaths or BinaryMaths
FslOp(operation) == IF operation = "bin" THEN "-bin" ELSE "-div"

\* the command line each nipype fsl.maths interface builds from its inputs
FslCommand(iface, in) ==
    LET constant(x) == [i \in DOMAIN in["in_file"].data |-> x]
        operand == IF "operand_file" \in DOMAIN in THEN in["operand_file"].data
                   ELSE constant(in["operand_value"].xs[1])
    IN  CASE iface = "MeanImage" -> [ops |-> <<"-Tmean">>, operands |-> <<>>]
          [] iface = "StdImage" -> [ops |-> <<"-Tstd">>, operands |-> <<>>]
          [] iface = "UnaryMaths" -> [ops |-> <<FslOp(in["operation"])>>, operands |-> <<>>]
          [] iface = "BinaryMaths" ->
                [ops |-> <<FslOp(in["operation"]), "%s">>, operands |-> <<operand>>]
          [] iface = "ApplyMask" ->
                [ops |-> <<"-mas", "%s">>, operands |-> <<in["mask_file"].data>>]
          [] iface = "Threshold" ->
                [ops |-> <<ThresholdOp(Get(in, "direction", "below")), "%s">>,
                 operands |-> <<constant(in["thresh"])>>]
          [] iface = "MathsCommand" -> [ops |-> in["args"], operands |-> <<>>]
          [] iface = "MultiImageMaths" ->
                [ops |-> in["op_string"],
                 operands |-> [k \in DOMAIN in["operand_files"].xs |->
                                  in["operand_files"].xs[k].data]]

FslMandatory(iface) ==
    CASE iface = "UnaryMaths" -> {"in_file", "operation"}
      [] iface = "BinaryMaths" -> {"in_file", "operation"}
      [] iface = "ApplyMask" -> {"in_file", "mask_file"}
      [] iface = "Threshold" -> {"in_file", "thresh"}
      [] iface = "MathsCommand" -> {"in_file", "args"}
      [] iface = "MultiImageMaths" -> {"in_file", "op_string", "operand_files"}
      [] OTHER -> {"in_file"}

FslInterfaces ==
    {"MeanImage", "StdImage", "UnaryMaths", "BinaryMaths", "ApplyMask", "Threshold",
     "MathsCommand", "MultiImageMaths"}

FslMaths(iface, in) ==
    IF /\ Has(in, FslMandatory(iface))
       /\ iface = "BinaryMaths" => Has(in, {"operand_file"}) \/ Has(in, {"operand_value"})
    THEN LET cmd == FslCommand(iface, in)
             series == in["in_file"].kind = "series"
             d == IF series
                  THEN [v \in DOMAIN in["in_file"].vols |-> in["in_file"].vols[v].data]
                  ELSE in["in_file"].data
             out == fslmaths(d, cmd.ops, cmd.operands)
         IN  Ok([f \in {"out_file"} |->
                    IF series THEN Img("volume", in["in_file"].frame, 0, out)
                    ELSE [in["in_file"] EXCEPT !.data = out]],
                <<[tool |-> "fslmaths", ops |-> cmd.ops]>>)
    ELSE Crash(<<>>)

\* fslstats -M / -S: mean / standard deviation of the non-zero voxels
ImageStats(in) ==
    IF Has(in, {"in_file", "op_string"})
    THEN LET nonzero == SelectSeq(in["in_file"].data, LAMBDA v : v # 0)
         IN  Ok([f \in {"out_stat"} |->
                    One(IF in["op_string"] = "-M" THEN MeanOf(nonzero) ELSE StdOf(nonzero))],
                <<[tool |-> "fslstats", input |-> in["in_file"], op |-> in["op_string"]]>>)
    ELSE Crash(<<>>)

\* an upper threshold that reads the statistics in the other order
_calc_upper_thr_swapped(in_stats) == in_stats[2] + ((in_stats[1] * 5) \div 10)

\* the threshold functions of init_goodvoxels_bold_mask_wf: in_stats[0] +
\* in_stats[1] * 0.5 and in_stats[1] - in_stats[0] * 0.5
_calc_upper_thr(in_stats) == in_stats[1] + ((in_stats[2] * 5) \div 10)

_calc_lower_thr(in_stats) == in_stats[2] - ((in_stats[1] * 5) \div 10)

\* IdentityInterface: every bound field is passed on
IdentityInterface(in) == Ok(in, <<>>)

(***************************************************************************)
(* The graphs.  A node is [iface, static, n, fields, join, iterfield]: its *)
(* interface, the inputs set on it at build time, numinputs of a Merge,    *)
(* the fields of a KeySelect (the mandatory inputs of an external tool),   *)
(* the join source of a JoinNode and the iterfield of a MapNode.  An edge  *)
(* is one entry of a connect() list: output out of node src, passed        *)
(* through function fn when the entry names one, feeds input in of node    *)
(* dst.                                                                    *)
(***************************************************************************)
Node(iface, static) ==
    [iface |-> iface, static |-> static, n |-> 0, fields |-> {}, join |-> "",
     iterfield |-> ""]

MergeNode(numinputs) == [Node("Merge", EmptyDict) EXCEPT !.n = numinputs]

KeySelectNode(fields, static) == [Node("KeySelect", static) EXCEPT !.fields = fields]

JoinNode(iface, joinsource) == [Node(iface, EmptyDict) EXCEPT !.join = joinsource]

ToolNode(tool, mandatory, static) == [Node(tool, static) EXCEPT !.fields = mandatory]

MapToolNode(tool, mandatory, iterfield, static) ==
    [Node(tool, static) EXCEPT !.fields = mandatory, !.iterfield = iterfield]

E(src, out, dst, in) == [src |-> src, out |-> out, fn |-> "", dst |-> dst, in |-> in]

Ef(src, out, fn, dst, in) == [src |-> src, out |-> out, fn |-> fn, dst |-> dst, in |-> in]

Interp(name) == [f \in {"interpolation"} |-> name]

\* f restricted to the keys in S; g laid over f
Restrict(f, S) == [x \in S \cap DOMAIN f |-> f[x]]

Union2(f, g) == [x \in DOMAIN f \cup DOMAIN g |-> IF x \in DOMAIN g THEN g[x] ELSE f[x]]

(* init_bold_std_trans_wf *)
StdOutputNames(c) ==
    {"bold_mask_std", "bold_std", "bold_std_ref", "spatial_reference", "template"}
    \cup (IF c.freesurfer THEN {"bold_aseg_std", "bold_aparc_std"} ELSE {})
    \cup (IF c.multiecho THEN {"t2star_std"} ELSE {})

StdBaseNodes(c) ==
    [x \in {"inputnode", "iterablesource", "split_target", "select_std", "select_tpl",
            "gen_ref", "mask_std_tfm", "mask_merge_tfms", "merge_xforms",
            "bold_to_std_transform", "threshold", "merge", "gen_final_ref",
            "poutputnode", "outputnode"} |->
        CASE x = "inputnode" -> Node("IdentityInterface", c.inputs)
          [] x = "iterablesource" -> Node("IdentityInterface", EmptyDict)
          [] x = "split_target" -> Node("_split_spec", EmptyDict)
          [] x = "select_std" -> KeySelectNode({"anat2std_xfm"}, EmptyDict)
          [] x = "select_tpl" -> Node("_select_template", EmptyDict)
          [] x = "gen_ref" -> Node("GenerateSamplingReference", EmptyDict)
          [] x = "mask_std_tfm" -> Node("ApplyTransforms", Interp("MultiLabel"))
          [] x = "mask_merge_tfms" -> MergeNode(2)
          [] x = "merge_xforms" -> MergeNode(4)
          [] x = "bold_to_std_transform" ->
                Node("MultiApplyTransforms", Interp("LanczosWindowedSinc"))
          [] x = "threshold" -> Node("Clip", [f \in {"minimum"} |-> 0])
          [] x = "merge" -> Node("NilearnMerge", EmptyDict)
          [] x = "gen_final_ref" -> Node("BoldReferenceWf", EmptyDict)
          [] x = "poutputnode" -> Node("IdentityInterface", EmptyDict)
          [] OTHER -> JoinNode("IdentityInterface", "iterablesource")]

StdFreesurferNodes ==
    [x \in {"aseg_std_tfm", "aparc_std_tfm"} |-> Node("ApplyTransforms", Interp("MultiLabel"))]

StdMultiechoNodes ==
    [x \in {"t2star_std_tfm"} |-> Node("ApplyTransforms", Interp("LanczosWindowedSinc"))]

StdNodes(c) ==
    Union2(Union2(StdBaseNodes(c),
                  IF c.freesurfer THEN StdFreesurferNodes ELSE EmptyDict),
           IF c.multiecho THEN StdMultiechoNodes ELSE EmptyDict)

\* a graph that hands the mask resampler the chain of the BOLD series
StdBaseEdgesMaskFullChain ==
    { E("iterablesource", "std_target", "split_target", "in_target"),
      E("iterablesource", "std_target", "select_tpl", "template"),
      E("inputnode", "anat2std_xfm", "select_std", "anat2std_xfm"),
      E("inputnode", "templates", "select_std", "keys"),
      E("inputnode", "bold_mask", "mask_std_tfm", "input_image"),
      Ef("inputnode", "bold_split", "_first", "gen_ref", "moving_image"),
      E("inputnode", "hmc_xforms", "merge_xforms", "in4"),
      E("inputnode", "fieldwarp", "merge_xforms", "in3"),
      Ef("inputnode", "itk_bold_to_t1", "_aslist", "merge_xforms", "in2"),
      E("inputnode", "name_source", "merge", "header_source"),
      Ef("inputnode", "itk_bold_to_t1", "_aslist", "mask_merge_tfms", "in2"),
      E("inputnode", "bold_split", "bold_to_std_transform", "input_image"),
      E("split_target", "space", "select_std", "key"),
      E("select_std", "anat2std_xfm", "merge_xforms", "in1"),
      E("select_std", "anat2std_xfm", "mask_merge_tfms", "in1"),
      Ef("split_target", "spec", "_is_native", "gen_ref", "keep_native"),
      E("select_tpl", "out", "gen_ref", "fixed_image"),
      E("merge_xforms", "out", "bold_to_std_transform", "transforms"),
      E("gen_ref", "out_file", "bold_to_std_transform", "reference_image"),
      E("gen_ref", "out_file", "mask_std_tfm", "reference_image"),
      E("merge_xforms", "out", "mask_std_tfm", "transforms"),
      E("mask_std_tfm", "output_image", "gen_final_ref", "inputnode.bold_mask"),
      E("bold_to_std_transform", "out_files", "threshold", "in_file"),
      E("threshold", "out_file", "merge", "in_files"),
      E("merge", "out_file", "gen_final_ref", "inputnode.bold_file") }

StdBaseEdges ==
    { E("iterablesource", "std_target", "split_target", "in_target"),
      E("iterablesource", "std_target", "select_tpl", "template"),
      E("inputnode", "anat2std_xfm", "select_std", "anat2std_xfm"),
      E("inputnode", "templates", "select_std", "keys"),
      E("inputnode", "bold_mask", "mask_std_tfm", "input_image"),
      Ef("inputnode", "bold_split", "_first", "gen_ref", "moving_image"),
      E("inputnode", "hmc_xforms", "merge_xforms", "in4"),
      E("inputnode", "fieldwarp", "merge_xforms", "in3"),
      Ef("inputnode", "itk_bold_to_t1", "_aslist", "merge_xforms", "in2"),
      E("inputnode", "name_source", "merge", "header_source"),
      Ef("inputnode", "itk_bold_to_t1", "_aslist", "mask_merge_tfms", "in2"),
      E("inputnode", "bold_split", "bold_to_std_transform", "input_image"),
      E("split_target", "space", "select_std", "key"),
      E("select_std", "anat2std_xfm", "merge_xforms", "in1"),
      E("select_std", "anat2std_xfm", "mask_merge_tfms", "in1"),
      Ef("split_target", "spec", "_is_native", "gen_ref", "keep_native"),
      E("select_tpl", "out", "gen_ref", "fixed_image"),
      E("merge_xforms", "out", "bold_to_std_transform", "transforms"),
      E("gen_ref", "out_file", "bold_to_std_transform", "reference_image"),
      E("gen_ref", "out_file", "mask_std_tfm", "reference_image"),
      E("mask_merge_tfms", "out", "mask_std_tfm", "transforms"),
      E("mask_std_tfm", "output_image", "gen_final_ref", "inputnode.bold_mask"),
      E("bold_to_std_transform", "out_files", "threshold", "in_file"),
      E("threshold", "out_file", "merge", "in_files"),
      E("merge", "out_file", "gen_final_ref", "inputnode.bold_file") }

StdOutputEdges ==
    { Ef("iterablesource", "std_target", "format_reference", "poutputnode",
         "spatial_reference"),
      E("merge", "out_file", "poutputnode", "bold_std"),
      E("gen_final_ref", "outputnode.ref_image", "poutputnode", "bold_std_ref"),
      E("mask_std_tfm", "output_image", "poutputnode", "bold_mask_std"),
      E("select_std", "key", "poutputnode", "template") }

StdFreesurferEdges ==
    { E("inputnode", "bold_aseg", "aseg_std_tfm", "input_image"),
      E("inputnode", "bold_aparc", "aparc_std_tfm", "input_image"),
      E("select_std", "anat2std_xfm", "aseg_std_tfm", "transforms"),
      E("select_std", "anat2std_xfm", "aparc_std_tfm", "transforms"),
      E("gen_ref", "out_file", "aseg_std_tfm", "reference_image"),
      E("gen_ref", "out_file", "aparc_std_tfm", "reference_image"),
      E("aseg_std_tfm", "output_image", "poutputnode", "bold_aseg_std"),
      E("aparc_std_tfm", "output_image", "poutputnode", "bold_aparc_std") }

StdMultiechoEdges ==
    { E("inputnode", "t2star", "t2star_std_tfm", "input_image"),
      E("select_std", "anat2std_xfm", "t2star_std_tfm", "transforms"),
      E("gen_ref", "out_file", "t2star_std_tfm", "reference_image"),
      E("t2star_std_tfm", "output_image", "poutputnode", "t2star_std") }

StdJoinEdges(c) == {E("poutputnode", f, "outputnode", f) : f \in StdOutputNames(c)}

StdEdges(c) ==
    StdBaseEdges \cup StdOutputEdges
    \cup (IF c.freesurfer THEN StdFreesurferEdges ELSE {})
    \cup (IF c.multiecho THEN StdMultiechoEdges ELSE {})
    \cup StdJoinEdges(c)

StdIterables(c) == [node |-> "iterablesource", field |-> "std_target", values |-> c.spaces]

(* init_bold_preproc_trans_wf: use_fieldwarp is read by the description text
   only, the graph is the same for both of its values *)
PreprocNodes(c) ==
    [x \in {"inputnode", "outputnode", "merge_xforms", "bold_transform", "threshold",
            "merge"} |->
        CASE x = "inputnode" -> Node("IdentityInterface", c.inputs)
          [] x = "outputnode" -> Node("IdentityInterface", EmptyDict)
          [] x = "merge_xforms" -> MergeNode(2)
          [] x = "bold_transform" -> Node("MultiApplyTransforms", Interp(c.interpolation))
          [] x = "threshold" -> Node("Clip", [f \in {"minimum"} |-> 0])
          [] OTHER -> Node("NilearnMerge", EmptyDict)]

\* the preproc graph with the clipping step fed by the input volumes instead
\* of the resampled ones
PreprocEdgesUnresampled ==
    { E("inputnode", "fieldwarp", "merge_xforms", "in1"),
      E("inputnode", "hmc_xforms", "merge_xforms", "in2"),
      E("inputnode", "bold_file", "bold_transform", "input_image"),
      Ef("inputnode", "bold_file", "_first", "bold_transform", "reference_image"),
      E("inputnode", "name_source", "merge", "header_source"),
      E("merge_xforms", "out", "bold_transform", "transforms"),
      E("inputnode", "bold_file", "threshold", "in_file"),
      E("threshold", "out_file", "merge", "in_files"),
      E("merge", "out_file", "outputnode", "bold") }

PreprocEdges ==
    { E("inputnode", "fieldwarp", "merge_xforms", "in1"),
      E("inputnode", "hmc_xforms", "merge_xforms", "in2"),
      E("inputnode", "bold_file", "bold_transform", "input_image"),
      Ef("inputnode", "bold_file", "_first", "bold_transform", "reference_image"),
      E("inputnode", "name_source", "merge", "header_source"),
      E("merge_xforms", "out", "bold_transform", "transforms"),
      E("bold_transform", "out_files", "threshold", "in_file"),
      E("threshold", "out_file", "merge", "in_files"),
      E("merge", "out_file", "outputnode", "bold") }

\* the two densities mapped to each other's resolution
mni_density_swapped(grayord_density) == IF grayord_density = "91k" THEN "1" ELSE "2"

(* init_bold_grayords_wf *)
mni_density(grayord_density) == IF grayord_density = "91k" THEN "2" ELSE "1"

GrayordsKey(grayord_density) ==
    [us |-> <<"MNI152NLin6Asym", ResToken(mni_density(grayord_density))>>]

GrayordsNodes(c) ==
    [x \in {"inputnode", "outputnode", "select_std", "gen_cifti"} |->
        CASE x = "inputnode" -> Node("IdentityInterface", c.inputs)
          [] x = "outputnode" -> Node("IdentityInterface", EmptyDict)
          [] x = "select_std" ->
                KeySelectNode({"bold_std"},
                              [f \in {"key"} |-> GrayordsKey(c.grayord_density)])
          [] OTHER -> Node("GenerateCifti",
                           [f \in {"TR", "grayordinates"} |->
                               IF f = "TR" THEN c.repetition_time
                               ELSE c.grayord_density])]

GrayordsEdges ==
    { E("inputnode", "bold_std", "select_std", "bold_std"),
      E("inputnode", "spatial_reference", "select_std", "keys"),
      E("inputnode", "bold_fsLR", "gen_cifti", "surface_bolds"),
      E("select_std", "bold_std", "gen_cifti", "bold_file"),
      E("gen_cifti", "out_file", "outputnode", "cifti_bold"),
      E("gen_cifti", "out_metadata", "outputnode", "cifti_metadata") }

(* init_bold_surf_wf: medial_nans is part of the graph only when
   medial_surface_nan connects it *)
SurfNodes(c) ==
    [x \in {"inputnode", "itersource", "get_fsnative", "targets", "rename_src", "itk2lta",
            "sampler", "update_metadata", "joinnode", "outputnode"}
           \cup (IF c.medial_surface_nan THEN {"medial_nans"} ELSE {}) |->
        CASE x = "inputnode" -> Node("IdentityInterface", c.inputs)
          [] x = "itersource" -> Node("IdentityInterface", EmptyDict)
          [] x = "get_fsnative" ->
                ToolNode("FreeSurferSource", {"subject_id", "subjects_dir"}, EmptyDict)
          [] x = "targets" -> Node("select_target", EmptyDict)
          [] x = "rename_src" ->
                ToolNode("Rename", {"in_file", "subject"},
                         [f \in {"format_string"} |-> "%(subject)s"])
          [] x = "itk2lta" -> Node("_itk2lta", EmptyDict)
          [] x = "sampler" ->
                MapToolNode("SampleToSurface", {"source_file", "reg_file"}, "hemi",
                            [f \in {"hemi", "interp_method", "sampling_method"} |->
                                CASE f = "hemi" -> <<"lh", "rh">>
                                  [] f = "interp_method" -> "trilinear"
                                  [] OTHER -> "average"])
          [] x = "medial_nans" ->
                MapToolNode("MedialNaNs", {"subjects_dir"}, "in_file", EmptyDict)
          [] x = "update_metadata" ->
                MapToolNode("GiftiSetAnatomicalStructure", {}, "in_file", EmptyDict)
          [] x = "joinnode" -> JoinNode("IdentityInterface", "itersource")
          [] OTHER -> Node("IdentityInterface", EmptyDict)]

\* init_bold_surf_wf with the sampler always wired straight to update_metadata
SurfEdgesAlwaysDirect(c) ==
    { E("inputnode", "subject_id", "get_fsnative", "subject_id"),
      E("inputnode", "subjects_dir", "get_fsnative", "subjects_dir"),
      E("inputnode", "subject_id", "targets", "subject_id"),
      E("inputnode", "source_file", "itk2lta", "src_file"),
      E("inputnode", "t1w2fsnative_xfm", "itk2lta", "in_file"),
      E("get_fsnative", "T1", "itk2lta", "dst_file"),
      E("inputnode", "subjects_dir", "sampler", "subjects_dir"),
      E("inputnode", "subject_id", "sampler", "subject_id"),
      E("itersource", "target", "targets", "space"),
      E("inputnode", "source_file", "rename_src", "in_file"),
      E("itersource", "target", "rename_src", "subject"),
      E("rename_src", "out_file", "sampler", "source_file"),
      E("itk2lta", "out", "sampler", "reg_file"),
      E("targets", "out", "sampler", "target_subject"),
      E("update_metadata", "out_file", "joinnode", "surfaces"),
      E("itersource", "target", "joinnode", "target"),
      E("joinnode", "surfaces", "outputnode", "surfaces"),
      E("joinnode", "target", "outputnode", "target"),
      E("sampler", "out_file", "update_metadata", "in_file") }

SurfEdges(c) ==
    { E("inputnode", "subject_id", "get_fsnative", "subject_id"),
      E("inputnode", "subjects_dir", "get_fsnative", "subjects_dir"),
      E("inputnode", "subject_id", "targets", "subject_id"),
      E("inputnode", "source_file", "itk2lta", "src_file"),
      E("inputnode", "t1w2fsnative_xfm", "itk2lta", "in_file"),
      E("get_fsnative", "T1", "itk2lta", "dst_file"),
      E("inputnode", "subjects_dir", "sampler", "subjects_dir"),
      E("inputnode", "subject_id", "sampler", "subject_id"),
      E("itersource", "target", "targets", "space"),
      E("inputnode", "source_file", "rename_src", "in_file"),
      E("itersource", "target", "rename_src", "subject"),
      E("rename_src", "out_file", "sampler", "source_file"),
      E("itk2lta", "out", "sampler", "reg_file"),
      E("targets", "out", "sampler", "target_subject"),
      E("update_metadata", "out_file", "joinnode", "surfaces"),
      E("itersource", "target", "joinnode", "target"),
      E("joinnode", "surfaces", "outputnode", "surfaces"),
      E("joinnode", "target", "outputnode", "target") }
    \cup (IF c.medial_surface_nan
          THEN { E("inputnode", "subjects_dir", "medial_nans", "subjects_dir"),
                 E("sampler", "out_file", "medial_nans", "in_file"),
                 E("medial_nans", "out_file", "update_metadata", "in_file") }
          ELSE { E("sampler", "out_file", "update_metadata", "in_file") })

SurfIterables(c) == [node |-> "itersource", field |-> "target", values |-> c.surface_spaces]

(* init_bold_fsLR_resampling_wf; init_goodvoxels_bold_mask_wf is taken as one
   node of it *)
fslr_density(grayord_density) == IF grayord_density = "91k" THEN "32k" ELSE "59k"

TemplateFile(hemi, name, density) == [hemi |-> hemi, name |-> name, density |-> density]

FsLRNodes(c) ==
    [x \in {"inputnode", "itersource", "joinnode", "outputnode", "select_surfaces",
            "initial_roi", "fill_holes", "native_roi", "downsampled_midthickness",
            "volume_to_surface", "metric_dilate", "mask_native", "resample_to_fsLR",
            "mask_fsLR"}
           \cup (IF c.estimate_goodvoxels THEN {"goodvoxels_bold_mask_wf"} ELSE {}) |->
        CASE x = "inputnode" -> Node("IdentityInterface", c.inputs)
          [] x = "itersource" -> Node("IdentityInterface", EmptyDict)
          [] x = "joinnode" -> JoinNode("IdentityInterface", "itersource")
          [] x = "outputnode" -> Node("IdentityInterface", EmptyDict)
          [] x = "select_surfaces" ->
                Node("_select_surfaces",
                     [f \in {"template_spheres", "template_rois"} |->
                        IF f = "template_spheres"
                        THEN <<TemplateFile("L", "sphere", fslr_density(c.grayord_density)),
                               TemplateFile("R", "sphere", fslr_density(c.grayord_density))>>
                        ELSE <<TemplateFile("L", "atlasroi", "32k"),
                               TemplateFile("R", "atlasroi", "32k")>>])
          [] x = "initial_roi" -> ToolNode("CreateROI", {"hemisphere", "thickness_file"}, EmptyDict)
          [] x = "fill_holes" ->
                ToolNode("MetricFillHoles", {"surface_file", "metric_file"}, EmptyDict)
          [] x = "native_roi" ->
                ToolNode("MetricRemoveIslands", {"surface_file", "metric_file"}, EmptyDict)
          [] x = "downsampled_midthickness" ->
                ToolNode("SurfaceResample", {"surface_in", "current_sphere", "new_sphere"},
                         [f \in {"method"} |-> "BARYCENTRIC"])
          [] x = "volume_to_surface" ->
                ToolNode("VolumeToSurfaceMapping", {"volume_file", "surface_file"},
                         [f \in {"method"} |-> "ribbon-constrained"])
          [] x = "metric_dilate" ->
                ToolNode("MetricDilate", {"in_file", "surf_file"},
                         [f \in {"distance", "nearest"} |->
                            IF f = "distance" THEN 10 ELSE TRUE])
          [] x = "mask_native" -> ToolNode("MetricMask", {"in_file", "mask"}, EmptyDict)
          [] x = "resample_to_fsLR" ->
                ToolNode("MetricResample", {"in_file", "current_sphere", "new_sphere"},
                         [f \in {"method", "area_surfs"} |->
                            IF f = "method" THEN "ADAP_BARY_AREA" ELSE TRUE])
          [] x = "mask_fsLR" -> ToolNode("MetricMask", {"in_file", "mask"}, EmptyDict)
          [] OTHER ->
                ToolNode("GoodvoxelsWf", {"inputnode.bold_file", "inputnode.anat_ribbon"},
                         EmptyDict)]

\* a graph whose native mask is the hole-filled ROI, islands and all
FsLRSurfaceEdgesUnpruned ==
    { E("inputnode", "surfaces", "select_surfaces", "surfaces"),
      E("inputnode", "morphometrics", "select_surfaces", "morphometrics"),
      E("inputnode", "sphere_reg_fsLR", "select_surfaces", "spherical_registrations"),
      E("itersource", "hemi", "select_surfaces", "hemi"),
      E("itersource", "hemi", "initial_roi", "hemisphere"),
      E("select_surfaces", "thickness", "initial_roi", "thickness_file"),
      E("select_surfaces", "midthickness", "fill_holes", "surface_file"),
      E("select_surfaces", "midthickness", "native_roi", "surface_file"),
      E("initial_roi", "roi_file", "fill_holes", "metric_file"),
      E("fill_holes", "out_file", "native_roi", "metric_file"),
      E("select_surfaces", "midthickness", "downsampled_midthickness", "surface_in"),
      E("select_surfaces", "sphere_reg", "downsampled_midthickness", "current_sphere"),
      E("select_surfaces", "template_sphere", "downsampled_midthickness", "new_sphere"),
      E("inputnode", "bold_file", "volume_to_surface", "volume_file"),
      E("select_surfaces", "midthickness", "volume_to_surface", "surface_file"),
      E("select_surfaces", "white", "volume_to_surface", "inner_surface"),
      E("select_surfaces", "pial", "volume_to_surface", "outer_surface"),
      E("select_surfaces", "midthickness", "metric_dilate", "surf_file"),
      E("volume_to_surface", "out_file", "metric_dilate", "in_file"),
      E("fill_holes", "out_file", "mask_native", "mask"),
      E("metric_dilate", "out_file", "mask_native", "in_file"),
      E("select_surfaces", "sphere_reg", "resample_to_fsLR", "current_sphere"),
      E("select_surfaces", "template_sphere", "resample_to_fsLR", "new_sphere"),
      E("select_surfaces", "midthickness", "resample_to_fsLR", "current_area"),
      E("downsampled_midthickness", "surface_out", "resample_to_fsLR", "new_area"),
      E("native_roi", "out_file", "resample_to_fsLR", "roi_metric"),
      E("mask_native", "out_file", "resample_to_fsLR", "in_file"),
      E("select_surfaces", "template_roi", "mask_fsLR", "mask"),
      E("resample_to_fsLR", "out_file", "mask_fsLR", "in_file"),
      E("mask_fsLR", "out_file", "joinnode", "bold_fsLR"),
      E("joinnode", "bold_fsLR", "outputnode", "bold_fsLR") }

\* the connections made for every run
FsLRSurfaceEdges ==
    { E("inputnode", "surfaces", "select_surfaces", "surfaces"),
      E("inputnode", "morphometrics", "select_surfaces", "morphometrics"),
      E("inputnode", "sphere_reg_fsLR", "select_surfaces", "spherical_registrations"),
      E("itersource", "hemi", "select_surfaces", "hemi"),
      E("itersource", "hemi", "initial_roi", "hemisphere"),
      E("select_surfaces", "thickness", "initial_roi", "thickness_file"),
      E("select_surfaces", "midthickness", "fill_holes", "surface_file"),
      E("select_surfaces", "midthickness", "native_roi", "surface_file"),
      E("initial_roi", "roi_file", "fill_holes", "metric_file"),
      E("fill_holes", "out_file", "native_roi", "metric_file"),
      E("select_surfaces", "midthickness", "downsampled_midthickness", "surface_in"),
      E("select_surfaces", "sphere_reg", "downsampled_midthickness", "current_sphere"),
      E("select_surfaces", "template_sphere", "downsampled_midthickness", "new_sphere"),
      E("inputnode", "bold_file", "volume_to_surface", "volume_file"),
      E("select_surfaces", "midthickness", "volume_to_surface", "surface_file"),
      E("select_surfaces", "white", "volume_to_surface", "inner_surface"),
      E("select_surfaces", "pial", "volume_to_surface", "outer_surface"),
      E("select_surfaces", "midthickness", "metric_dilate", "surf_file"),
      E("volume_to_surface", "out_file", "metric_dilate", "in_file"),
      E("native_roi", "out_file", "mask_native", "mask"),
      E("metric_dilate", "out_file", "mask_native", "in_file"),
      E("select_surfaces", "sphere_reg", "resample_to_fsLR", "current_sphere"),
      E("select_surfaces", "template_sphere", "resample_to_fsLR", "new_sphere"),
      E("select_surfaces", "midthickness", "resample_to_fsLR", "current_area"),
      E("downsampled_midthickness", "surface_out", "resample_to_fsLR", "new_area"),
      E("native_roi", "out_file", "resample_to_fsLR", "roi_metric"),
      E("mask_native", "out_file", "resample_to_fsLR", "in_file"),
      E("select_surfaces", "template_roi", "mask_fsLR", "mask"),
      E("resample_to_fsLR", "out_file", "mask_fsLR", "in_file"),
      E("mask_fsLR", "out_file", "joinnode", "bold_fsLR"),
      E("joinnode", "bold_fsLR", "outputnode", "bold_fsLR") }

\* connections that leave the projection without its volume ROI
FsLRGoodvoxelsEdgesUnused ==
    { E("inputnode", "bold_file", "goodvoxels_bold_mask_wf", "inputnode.bold_file"),
      E("inputnode", "anat_ribbon", "goodvoxels_bold_mask_wf", "inputnode.anat_ribbon"),
      E("goodvoxels_bold_mask_wf", "outputnode.goodvoxels_mask",
        "outputnode", "goodvoxels_mask") }

\* the connections made when estimate_goodvoxels is set
FsLRGoodvoxelsEdges ==
    { E("inputnode", "bold_file", "goodvoxels_bold_mask_wf", "inputnode.bold_file"),
      E("inputnode", "anat_ribbon", "goodvoxels_bold_mask_wf", "inputnode.anat_ribbon"),
      E("goodvoxels_bold_mask_wf", "outputnode.goodvoxels_mask",
        "volume_to_surface", "volume_roi"),
      E("goodvoxels_bold_mask_wf", "outputnode.goodvoxels_mask",
        "outputnode", "goodvoxels_mask") }

FsLREdges(c) ==
    FsLRSurfaceEdges \cup (IF c.estimate_goodvoxels THEN FsLRGoodvoxelsEdges ELSE {})

\* the hemispheres taken right first
FsLRIterablesRightFirst == [node |-> "itersource", field |-> "hemi", values |-> <<"R", "L">>]

FsLRIterables == [node |-> "itersource", field |-> "hemi", values |-> <<"L", "R">>]

(* init_goodvoxels_bold_mask_wf *)
GoodvoxelsNodes(c) ==
    [x \in {"inputnode", "outputnode", "ribbon_boldsrc_xfm", "stdev_volume", "mean_volume",
            "cov_volume", "cov_ribbon", "cov_ribbon_mean", "cov_ribbon_std",
            "cov_ribbon_norm", "smooth_norm", "merge_smooth_norm",
            "cov_ribbon_norm_smooth", "cov_norm", "cov_norm_modulate",
            "cov_norm_modulate_ribbon", "upper_thr_val", "lower_thr_val",
            "mod_ribbon_mean", "mod_ribbon_std", "merge_mod_ribbon_stats",
            "bin_mean_volume", "merge_goodvoxels_operands", "goodvoxels_thr",
            "goodvoxels_mask", "goodvoxels_ribbon_mask"} |->
        CASE x = "inputnode" -> Node("IdentityInterface", c.inputs)
          [] x = "outputnode" -> Node("IdentityInterface", EmptyDict)
          [] x = "ribbon_boldsrc_xfm" ->
                Node("ApplyTransforms",
                     [f \in {"interpolation", "transforms"} |->
                        IF f = "interpolation" THEN "MultiLabel"
                        ELSE One(Xfm("identity", c.inputs["anat_ribbon"].frame,
                                     c.inputs["anat_ribbon"].frame, 1))])
          [] x = "stdev_volume" -> Node("StdImage", [f \in {"dimension"} |-> "T"])
          [] x = "mean_volume" -> Node("MeanImage", [f \in {"dimension"} |-> "T"])
          [] x \in {"cov_volume", "cov_ribbon_norm", "cov_norm", "cov_norm_modulate"} ->
                Node("BinaryMaths", [f \in {"operation"} |-> "div"])
          [] x \in {"cov_ribbon", "cov_norm_modulate_ribbon", "goodvoxels_ribbon_mask"} ->
                Node("ApplyMask", EmptyDict)
          [] x \in {"cov_ribbon_mean", "mod_ribbon_mean"} ->
                Node("ImageStats", [f \in {"op_string"} |-> "-M"])
          [] x \in {"cov_ribbon_std", "mod_ribbon_std"} ->
                Node("ImageStats", [f \in {"op_string"} |-> "-S"])
          [] x = "smooth_norm" ->
                Node("MathsCommand", [f \in {"args"} |-> <<"-bin", "-s", "5">>])
          [] x = "merge_smooth_norm" -> MergeNode(1)
          [] x = "cov_ribbon_norm_smooth" ->
                Node("MultiImageMaths",
                     [f \in {"op_string"} |-> <<"-s", "5", "-div", "%s", "-dilD">>])
          [] x = "upper_thr_val" -> Node("_calc_upper_thr", EmptyDict)
          [] x = "lower_thr_val" -> Node("_calc_lower_thr", EmptyDict)
          [] x = "merge_mod_ribbon_stats" -> MergeNode(2)
          [] x = "bin_mean_volume" -> Node("UnaryMaths", [f \in {"operation"} |-> "bin"])
          [] x = "merge_goodvoxels_operands" -> MergeNode(2)
          [] x = "goodvoxels_thr" -> Node("Threshold", EmptyDict)
          [] OTHER ->
                Node("MultiImageMaths",
                     [f \in {"op_string"} |-> <<"-bin", "-sub", "%s", "-mul", "-1">>])]

\* the first connect() call: the mask of the voxels to keep
GoodvoxelsMaskEdges ==
    { E("inputnode", "anat_ribbon", "ribbon_boldsrc_xfm", "input_image"),
      E("inputnode", "bold_file", "stdev_volume", "in_file"),
      E("inputnode", "bold_file", "mean_volume", "in_file"),
      E("mean_volume", "out_file", "ribbon_boldsrc_xfm", "reference_image"),
      E("stdev_volume", "out_file", "cov_volume", "in_file"),
      E("mean_volume", "out_file", "cov_volume", "operand_file"),
      E("cov_volume", "out_file", "cov_ribbon", "in_file"),
      E("ribbon_boldsrc_xfm", "output_image", "cov_ribbon", "mask_file"),
      E("cov_ribbon", "out_file", "cov_ribbon_mean", "in_file"),
      E("cov_ribbon", "out_file", "cov_ribbon_std", "in_file"),
      E("cov_ribbon", "out_file", "cov_ribbon_norm", "in_file"),
      E("cov_ribbon_mean", "out_stat", "cov_ribbon_norm", "operand_value"),
      E("cov_ribbon_norm", "out_file", "smooth_norm", "in_file"),
      E("smooth_norm", "out_file", "merge_smooth_norm", "in1"),
      E("cov_ribbon_norm", "out_file", "cov_ribbon_norm_smooth", "in_file"),
      E("merge_smooth_norm", "out", "cov_ribbon_norm_smooth", "operand_files"),
      E("cov_ribbon_mean", "out_stat", "cov_norm", "operand_value"),
      E("cov_volume", "out_file", "cov_norm", "in_file"),
      E("cov_norm", "out_file", "cov_norm_modulate", "in_file"),
      E("cov_ribbon_norm_smooth", "out_file", "cov_norm_modulate", "operand_file"),
      E("cov_norm_modulate", "out_file", "cov_norm_modulate_ribbon", "in_file"),
      E("ribbon_boldsrc_xfm", "output_image", "cov_norm_modulate_ribbon", "mask_file"),
      E("cov_norm_modulate_ribbon", "out_file", "mod_ribbon_mean", "in_file"),
      E("cov_norm_modulate_ribbon", "out_file", "mod_ribbon_std", "in_file"),
      E("mod_ribbon_mean", "out_stat", "merge_mod_ribbon_stats", "in1"),
      E("mod_ribbon_std", "out_stat", "merge_mod_ribbon_stats", "in2"),
      E("merge_mod_ribbon_stats", "out", "upper_thr_val", "in_stats"),
      E("merge_mod_ribbon_stats", "out", "lower_thr_val", "in_stats"),
      E("mean_volume", "out_file", "bin_mean_volume", "in_file"),
      E("upper_thr_val", "upper_thresh", "goodvoxels_thr", "thresh"),
      E("cov_norm_modulate", "out_file", "goodvoxels_thr", "in_file"),
      E("bin_mean_volume", "out_file", "merge_goodvoxels_operands", "in1"),
      E("goodvoxels_thr", "out_file", "goodvoxels_mask", "in_file"),
      E("merge_goodvoxels_operands", "out", "goodvoxels_mask", "operand_files") }

\* a second call that hands the mask on as goodvoxels_ribbon as it is
GoodvoxelsRibbonEdgesUnmasked ==
    { E("goodvoxels_mask", "out_file", "goodvoxels_ribbon_mask", "in_file"),
      E("ribbon_boldsrc_xfm", "output_image", "goodvoxels_ribbon_mask", "mask_file"),
      E("goodvoxels_mask", "out_file", "outputnode", "goodvoxels_mask"),
      E("goodvoxels_mask", "out_file", "outputnode", "goodvoxels_ribbon") }

\* the second connect() call: the mask within the ribbon, and the outputs
GoodvoxelsRibbonEdges ==
    { E("goodvoxels_mask", "out_file", "goodvoxels_ribbon_mask", "in_file"),
      E("ribbon_boldsrc_xfm", "output_image", "goodvoxels_ribbon_mask", "mask_file"),
      E("goodvoxels_mask", "out_file", "outputnode", "goodvoxels_mask"),
      E("goodvoxels_ribbon_mask", "out_file", "outputnode", "goodvoxels_ribbon") }

\* connections in which goodvoxels_thr takes the lower threshold
GoodvoxelsEdgesLowerUsed ==
    ((GoodvoxelsMaskEdges \cup GoodvoxelsRibbonEdges)
        \ { E("upper_thr_val", "upper_thresh", "goodvoxels_thr", "thresh") })
    \cup { E("lower_thr_val", "lower_thresh", "goodvoxels_thr", "thresh") }

GoodvoxelsEdges == GoodvoxelsMaskEdges \cup GoodvoxelsRibbonEdges

(* a call of _select_template by itself: the select_tpl node, its template
   input bound to the spec under test *)
TemplateCallNodes(c) ==
    [x \in {"select_tpl"} |-> Node("_select_template", [f \in {"template"} |-> c.template])]

NoIterables == [node |-> "", field |-> "", values |-> <<>>]

Nodes(c) ==
    CASE c.wf = "std" -> StdNodes(c)
      [] c.wf = "preproc" -> PreprocNodes(c)
      [] c.wf = "grayords" -> GrayordsNodes(c)
      [] c.wf = "surf" -> SurfNodes(c)
      [] c.wf = "fsLR" -> FsLRNodes(c)
      [] c.wf = "goodvoxels" -> GoodvoxelsNodes(c)
      [] OTHER -> TemplateCallNodes(c)

Edges(c) ==
    CASE c.wf = "std" -> StdEdges(c)
      [] c.wf = "preproc" -> PreprocEdges
      [] c.wf = "grayords" -> GrayordsEdges
      [] c.wf = "surf" -> SurfEdges(c)
      [] c.wf = "fsLR" -> FsLREdges(c)
      [] c.wf = "goodvoxels" -> GoodvoxelsEdges
      [] OTHER -> {}

Iterables(c) ==
    CASE c.wf = "std" -> StdIterables(c)
      [] c.wf = "surf" -> SurfIterables(c)
      [] c.wf = "fsLR" -> FsLRIterables
      [] OTHER -> NoIterables

(***************************************************************************)
(* The engine.  The workflow a builder returns is expanded once, before    *)
(* anything runs: graph holds its nodes and edges, the names replicated    *)
(* per iterable value, the node instances <<name, replica>> (replica 0 for *)
(* a node that is not replicated), who feeds whom among them and the       *)
(* connect() entries that end in each node.                                *)
(***************************************************************************)
Names(c) == DOMAIN Nodes(c)

Width(c) == Len(Iterables(c).values)

\* the nodes replicated per iterable value: the iterable node and what it
\* reaches without passing the JoinNode that names it as its join source
RECURSIVE BelowFrom(_, _, _, _, _)
BelowFrom(nodes, edges, source, S, k) ==
    LET T == S \cup {e.dst : e \in {x \in edges :
                        x.src \in S /\ nodes[x.dst].join # source}}
    IN  IF k = 0 \/ T = S THEN S ELSE BelowFrom(nodes, edges, source, T, k - 1)

Below(c) ==
    IF Iterables(c).node = "" THEN {}
    ELSE BelowFrom(Nodes(c), Edges(c), Iterables(c).node, {Iterables(c).node},
                   Cardinality(Names(c)))

\* the instances of node src that feed instance ni
SourcesOf(below, width, src, ni) ==
    IF src \notin below THEN {<<src, 0>>}
    ELSE IF ni[2] = 0 THEN {<<src, k>> : k \in 1..width}
    ELSE {<<src, ni[2]>>}

RECURSIVE DescendantsFrom(_, _, _)
DescendantsFrom(fed, S, k) ==
    LET T == S \cup UNION {fed[x] : x \in S}
    IN  IF k = 0 \/ T = S THEN S ELSE DescendantsFrom(fed, T, k - 1)

Expanded(c) ==
    LET nodes == Nodes(c)
        edges == Edges(c)
        below == Below(c)
        width == Width(c)
        insts == UNION {{<<n, b>> : b \in IF n \in below THEN 1..width ELSE {0}} :
                            n \in DOMAIN nodes}
        feeders == [ni \in insts |->
                      UNION {SourcesOf(below, width, e.src, ni) :
                                e \in {x \in edges : x.dst = ni[1]}}]
        fed == [ni \in insts |-> {x \in insts : ni \in feeders[x]}]
    IN  [nodes |-> nodes, edges |-> edges, below |-> below, width |-> width,
         instances |-> insts, feeders |-> feeders, fed |-> fed,
         descendants |-> [ni \in insts |->
                            DescendantsFrom(fed, fed[ni], Cardinality(insts))],
         incoming |-> [n \in DOMAIN nodes |-> {e \in edges : e.dst = n}],
         iterables |-> Iterables(c)]

ApplyFn(fn, v) ==
    CASE fn = "_first" -> _first(v)
      [] fn = "_aslist" -> _aslist(v)
      [] fn = "_is_native" -> _is_native(v)
      [] fn = "format_reference" -> format_reference(v)
      [] OTHER -> v

\* A JoinNode input gathers the replicas of its source into one list, the
\* k-th slot holding the replica of the k-th iterable value
JoinSlotsByArrival(g, arr, src) ==
    LET mine == SelectSeq(arr, LAMBDA x : x[1] = src)
    IN  [k \in 1..Len(mine) |-> mine[k][2]]

JoinSlots(g, arr, src) == [k \in 1..g.width |-> k]

EdgeBound(g, vals, e, ni) ==
    \A si \in SourcesOf(g.below, g.width, e.src, ni) : e.out \in DOMAIN vals[si]

EdgeValue(g, vals, arr, e, ni) ==
    IF e.src \in g.below /\ ni[2] = 0
    THEN LET slots == JoinSlots(g, arr, e.src)
         IN  [k \in DOMAIN slots |-> ApplyFn(e.fn, vals[<<e.src, slots[k]>>][e.out])]
    ELSE ApplyFn(e.fn, vals[<<e.src, IF e.src \in g.below THEN ni[2] ELSE 0>>][e.out])

InputsOf(g, vals, arr, ni) ==
    LET es == {e \in g.incoming[ni[1]] : EdgeBound(g, vals, e, ni)}
        wired == [f \in {e.in : e \in es} |->
                    EdgeValue(g, vals, arr, CHOOSE e \in es : e.in = f, ni)]
        iterated == IF ni[1] = g.iterables.node
                    THEN [f \in {g.iterables.field} |-> g.iterables.values[ni[2]]]
                    ELSE EmptyDict
    IN  Union2(Union2(g.nodes[ni[1]].static, iterated), wired)

Exec(c, nd, in) ==
    CASE nd.iface = "IdentityInterface" -> IdentityInterface(in)
      [] nd.iface = "KeySelect" -> KeySelect(in, nd.fields)
      [] nd.iface = "Merge" -> Merge(in, nd.n)
      [] nd.iface = "ApplyTransforms" -> ApplyTransforms(in, c.undershoot)
      [] nd.iface = "MultiApplyTransforms" -> MultiApplyTransforms(in, c.undershoot)
      [] nd.iface = "Clip" -> ClipMapNode(in)
      [] nd.iface = "NilearnMerge" -> NilearnMerge(in)
      [] nd.iface = "GenerateSamplingReference" -> GenerateSamplingReference(in)
      [] nd.iface = "BoldReferenceWf" -> BoldReferenceWf(in)
      [] nd.iface = "GenerateCifti" -> GenerateCifti(in)
      [] nd.iface \in FslInterfaces -> FslMaths(nd.iface, in)
      [] nd.iface = "ImageStats" -> ImageStats(in)
      [] nd.iface = "_calc_upper_thr" ->
            IF Has(in, {"in_stats"})
            THEN Ok([f \in {"upper_thresh"} |-> _calc_upper_thr(in["in_stats"].xs)], <<>>)
            ELSE Crash(<<>>)
      [] nd.iface = "_calc_lower_thr" ->
            IF Has(in, {"in_stats"})
            THEN Ok([f \in {"lower_thresh"} |-> _calc_lower_thr(in["in_stats"].xs)], <<>>)
            ELSE Crash(<<>>)
      [] nd.iface = "_split_spec" ->
            IF Has(in, {"in_target"})
            THEN Ok(_split_spec(in["in_target"]), <<>>) ELSE Crash(<<>>)
      [] nd.iface = "_select_template" ->
            IF Has(in, {"template"})
            THEN LET r == _select_template(in["template"], c.avail)
                 IN  IF r.ok THEN Ok([f \in {"out"} |-> r.out], r.lookups)
                     ELSE Crash(r.lookups)
            ELSE Crash(<<>>)
      [] nd.iface = "select_target" ->
            IF Has(in, {"subject_id", "space"})
            THEN Ok([f \in {"out"} |-> select_target(in["subject_id"], in["space"])], <<>>)
            ELSE Crash(<<>>)
      [] nd.iface = "_itk2lta" ->
            IF Has(in, {"in_file", "src_file", "dst_file"})
            THEN Ok([f \in {"out"} |->
                        _itk2lta(in["in_file"], in["src_file"], in["dst_file"])], <<>>)
            ELSE Crash(<<>>)
      [] nd.iface = "_select_surfaces" ->
            IF Has(in, {"hemi", "surfaces", "morphometrics", "spherical_registrations",
                        "template_spheres", "template_rois"})
            THEN _select_surfaces(in) ELSE Crash(<<>>)
      [] nd.iterfield # "" -> MapTool(nd.iface, in, nd.fields, nd.iterfield)
      [] OTHER -> ExternalTool(nd.iface, in, nd.fields)

\* a scheduler that starts a node as soon as one of its feeders is done
ReadyOnFirstFeeder(g, status, ni) ==
    /\ status[ni] = "pending"
    /\ (g.feeders[ni] = {} \/ \E x \in g.feeders[ni] : status[x] = "done")

\* a node may run once every instance feeding it is done
Ready(g, status, ni) ==
    /\ status[ni] = "pending"
    /\ \A x \in g.feeders[ni] : status[x] = "done"

FeedsJoin(g, ni) == ni[2] # 0 /\ \E x \in g.fed[ni] : x[2] = 0

Outcome(ni) ==
    CHOOSE r \in {Exec(cfg, graph.nodes[ni[1]], in) :
                    in \in {InputsOf(graph, val, arrived, ni)}} : TRUE

NodeRuns(ni) ==
    /\ Ready(graph, st, ni)
    /\ \E r \in {Outcome(ni)} :
           /\ r.ok
           /\ val' = [val EXCEPT ![ni] = r.out]
           /\ calls' = [calls EXCEPT ![ni] = r.calls]
    /\ st' = [st EXCEPT ![ni] = "done"]
    /\ arrived' = IF FeedsJoin(graph, ni) THEN Append(arrived, ni) ELSE arrived
    /\ UNCHANGED <<cfg, graph>>

\* a crash that stops the whole run: every node still pending is taken out
NodeCrashesStopsAll(ni) ==
    /\ Ready(graph, st, ni)
    /\ \E r \in {Outcome(ni)} :
           /\ ~r.ok
           /\ calls' = [calls EXCEPT ![ni] = r.calls]
    /\ st' = [x \in DOMAIN st |->
                IF x = ni THEN "failed"
                ELSE IF st[x] = "pending" THEN "skipped" ELSE st[x]]
    /\ UNCHANGED <<cfg, graph, val, arrived>>

\* a node that raises is failed, and everything downstream of it is taken out
\* of the run
NodeCrashes(ni) ==
    /\ Ready(graph, st, ni)
    /\ \E r \in {Outcome(ni)} :
           /\ ~r.ok
           /\ calls' = [calls EXCEPT ![ni] = r.calls]
    /\ st' = [x \in DOMAIN st |->
                IF x = ni THEN "failed"
                ELSE IF x \in graph.descendants[ni] THEN "skipped" ELSE st[x]]
    /\ UNCHANGED <<cfg, graph, val, arrived>>

(***************************************************************************)
(* The runs explored: the values the workflows are built with and the      *)
(* inputs bound to their input nodes.                                      *)
(***************************************************************************)
MaxKeys == 2        \* entries of the spatial_reference list given to grayords

Orig == <<"orig">>
BoldRef == <<"boldref">>
T1w == <<"T1w">>
NLin6 == <<"MNI152NLin6Asym">>
Pediatric == <<"MNIPediatricAsym">>
PediatricCohort6 == <<"MNIPediatricAsym", "cohort-6">>

\* requested spaces, as (fullname, spec) pairs
SpaceOrder ==
    << <<NLin6, [res |-> "2"]>>, <<PediatricCohort6, [cohort |-> "6"]>>,
       <<NLin6, [res |-> "1"]>> >>

SpacePool == Range(SpaceOrder)

DistinctSeqs(S, n) == UNION {{s \in [1..k -> S] : NoDup(s)} : k \in 1..n}

\* the lists of up to n entries of order, in the order they have there
SubLists(order, n) ==
    {s \in DistinctSeqs(Range(order), n) :
        \A i, j \in DOMAIN s : i < j => IndexOf(order, s[i]) < IndexOf(order, s[j])}

Reversed(s) == [i \in DOMAIN s |-> s[Len(s) + 1 - i]]

AnySeqs(S, n) == UNION {[1..k -> S] : k \in 1..n}

\* the templates spatial normalization ran for, with one transform each
TemplateLists == { <<PediatricCohort6, NLin6>>, <<NLin6, Pediatric>> }

Anat2Std(key) == One(Xfm("anat2std", T1w, key, 1))

BoldSplit == [v \in 1..NVols |-> Img("bold", Orig, v, <<10 * v + 1, 10 * v + 2>>)]

HmcXforms == One(Xfm("hmc", Orig, BoldRef, NVols))

Fieldwarp == One(Xfm("fieldwarp", BoldRef, BoldRef, 0))

BoldToT1 == Xfm("bold_to_t1", BoldRef, T1w, 1)

T1ToBold == Xfm("t1_to_bold", T1w, BoldRef, 1)

AffineChoices == { One(BoldToT1), List(<<BoldToT1>>), One(T1ToBold) }

TemplateFlow == {"1", "2"}

StdInputs(templates, fieldwarp, affine) ==
    Union2([f \in {"anat2std_xfm", "templates", "bold_mask", "bold_split", "hmc_xforms",
                   "itk_bold_to_t1", "name_source", "bold_aseg", "bold_aparc",
                   "t2star"} |->
              CASE f = "anat2std_xfm" -> [i \in DOMAIN templates |-> Anat2Std(templates[i])]
                [] f = "templates" -> templates
                [] f = "bold_mask" -> Img("mask", BoldRef, 0, <<1, 0>>)
                [] f = "bold_split" -> BoldSplit
                [] f = "hmc_xforms" -> HmcXforms
                [] f = "itk_bold_to_t1" -> affine
                [] f = "name_source" -> [kind |-> "name"]
                [] f = "bold_aseg" -> Img("aseg", T1w, 0, <<3, 4>>)
                [] f = "bold_aparc" -> Img("aparc", T1w, 0, <<1003, 2004>>)
                [] OTHER -> Img("t2star", BoldRef, 0, <<300, 400>>)],
           IF fieldwarp THEN [f \in {"fieldwarp"} |-> Fieldwarp] ELSE EmptyDict)

StdRun(spaces, templates, fieldwarp, affine, undershoot, freesurfer, multiecho) ==
    [wf |-> "std", spaces |-> spaces, freesurfer |-> freesurfer, multiecho |-> multiecho,
     inputs |-> StdInputs(templates, fieldwarp, affine),
     undershoot |-> undershoot, avail |-> TemplateFlow]

\* fan-out, the transform inputs fixed: request lists in the order of
\* SpaceOrder against templates that hold every requested space, and the same
\* lists reversed against templates that lack the cohort-qualified key
StdFanOutRuns ==
    {StdRun(s, <<PediatricCohort6, NLin6>>, TRUE, One(BoldToT1), FALSE, FALSE, FALSE) :
        s \in SubLists(SpaceOrder, MaxSpaces)}
    \cup {StdRun(Reversed(s), <<NLin6, Pediatric>>, TRUE, One(BoldToT1), FALSE, FALSE, FALSE) :
            s \in SubLists(SpaceOrder, MaxSpaces)}

\* one requested space, every binding of the transform inputs and both
\* behaviours of the interpolation kernel
StdChainRuns ==
    {StdRun(<<x[1]>>, x[2], x[3], x[4], x[5], FALSE, FALSE) :
        x \in SpacePool \X TemplateLists \X BOOLEAN \X AffineChoices \X BOOLEAN}

\* the optional per-space nodes: one requested space with every choice of
\* freesurfer and multiecho, and two requested spaces with both
StdOptionalRuns ==
    {StdRun(<<x[1]>>, <<PediatricCohort6, NLin6>>, TRUE, One(BoldToT1), FALSE, x[2], x[3]) :
        x \in {y \in SpacePool \X BOOLEAN \X BOOLEAN : y[2] \/ y[3]}}
    \cup {StdRun(<<SpaceOrder[2], SpaceOrder[1]>>, <<PediatricCohort6, NLin6>>, TRUE,
                 One(BoldToT1), FALSE, TRUE, TRUE)}

PreprocRuns ==
    {[wf |-> "preproc", use_fieldwarp |-> x[1], interpolation |-> x[3],
      inputs |-> Union2([f \in {"bold_file", "hmc_xforms", "name_source"} |->
                            CASE f = "bold_file" -> BoldSplit
                              [] f = "hmc_xforms" -> HmcXforms
                              [] OTHER -> [kind |-> "name"]],
                        IF x[2] THEN [f \in {"fieldwarp"} |-> Fieldwarp] ELSE EmptyDict),
      undershoot |-> x[4], avail |-> TemplateFlow] :
        x \in BOOLEAN \X BOOLEAN \X {"LanczosWindowedSinc", "NearestNeighbor"} \X BOOLEAN}

ReferencePool ==
    { [us |-> <<"MNI152NLin6Asym", "res-2">>], [us |-> <<"MNI152NLin6Asym", "res-1">>],
      [us |-> <<"MNI152NLin6Asym">>] }

GrayordsRuns ==
    {[wf |-> "grayords", grayord_density |-> x[1], repetition_time |-> 2,
      inputs |-> [f \in {"bold_std", "bold_fsLR", "spatial_reference"} |->
                    CASE f = "bold_std" ->
                            [i \in DOMAIN x[2] |-> [kind |-> "series", at |-> i]]
                      [] f = "bold_fsLR" -> <<[kind |-> "gifti", hemi |-> "L"],
                                              [kind |-> "gifti", hemi |-> "R"]>>
                      [] OTHER -> x[2]],
      undershoot |-> FALSE, avail |-> TemplateFlow] :
        x \in {"91k", "170k"} \X AnySeqs(ReferencePool, MaxKeys)}

ResChoices == {"native", "1", "2", "3"}

SpecPool ==
    {EmptyDict}
    \cup {[res |-> r] : r \in ResChoices}
    \cup {[resolution |-> r] : r \in ResChoices}
    \cup {[res |-> x[1], resolution |-> x[2]] : x \in ResChoices \X ResChoices}
    \cup {[cohort |-> "6", res |-> r] : r \in ResChoices}

TemplateCalls ==
    {[wf |-> "tpl", template |-> <<x[1], x[2]>>, undershoot |-> FALSE, avail |-> x[3]] :
        x \in {NLin6, PediatricCohort6} \X SpecPool \X SUBSET {"1", "2", "3"}}

MaxTargets == 2     \* surface spaces requested of init_bold_surf_wf

SurfaceOrder == <<"fsnative", "fsaverage", "fsaverage5">>

SurfInputs(bound) ==
    Union2([f \in {"source_file", "subject_id", "subjects_dir"} |->
                CASE f = "source_file" -> [kind |-> "bold", frame |-> T1w]
                  [] f = "subject_id" -> "sub-01"
                  [] OTHER -> "subjects_dir"],
           IF bound
           THEN [f \in {"t1w2fsnative_xfm"} |-> Xfm("t1w2fsnative", T1w, <<"fsnative">>, 1)]
           ELSE EmptyDict)

\* lists of targets in the order of SurfaceOrder and reversed, with and
\* without the medial-wall step; one target with the T1w-to-fsnative
\* transform left undefined
SurfRuns ==
    {[wf |-> "surf", surface_spaces |-> x[1], medial_surface_nan |-> x[2],
      inputs |-> SurfInputs(TRUE), undershoot |-> FALSE, avail |-> TemplateFlow] :
        x \in (SubLists(SurfaceOrder, MaxTargets)
                \cup {Reversed(s) : s \in SubLists(SurfaceOrder, MaxTargets)}) \X BOOLEAN}
    \cup {[wf |-> "surf", surface_spaces |-> <<t>>, medial_surface_nan |-> FALSE,
           inputs |-> SurfInputs(FALSE), undershoot |-> FALSE, avail |-> TemplateFlow] :
            t \in Range(SurfaceOrder)}

SubjectFile(hemi, name) == [hemi |-> hemi, name |-> name, density |-> "native"]

\* the surfaces input: both hemispheres in either order, or the right pial
\* surface missing
SurfaceLists ==
    { <<SubjectFile("L", "white"), SubjectFile("R", "white"), SubjectFile("L", "pial"),
        SubjectFile("R", "pial"), SubjectFile("L", "midthickness"),
        SubjectFile("R", "midthickness"), SubjectFile("L", "inflated"),
        SubjectFile("R", "inflated")>>,
      <<SubjectFile("R", "inflated"), SubjectFile("R", "midthickness"),
        SubjectFile("R", "pial"), SubjectFile("R", "white"), SubjectFile("L", "inflated"),
        SubjectFile("L", "midthickness"), SubjectFile("L", "pial"),
        SubjectFile("L", "white")>>,
      <<SubjectFile("L", "white"), SubjectFile("R", "white"), SubjectFile("L", "pial"),
        SubjectFile("L", "midthickness"), SubjectFile("R", "midthickness")>> }

FsLRRuns ==
    {[wf |-> "fsLR", grayord_density |-> x[1], estimate_goodvoxels |-> x[2],
      inputs |-> [f \in {"bold_file", "surfaces", "morphometrics", "sphere_reg_fsLR",
                         "anat_ribbon"} |->
                    CASE f = "bold_file" -> [kind |-> "series", frame |-> T1w]
                      [] f = "surfaces" -> x[3]
                      [] f = "morphometrics" ->
                            <<SubjectFile("R", "thickness"), SubjectFile("L", "thickness"),
                              SubjectFile("L", "sulc"), SubjectFile("R", "sulc")>>
                      [] f = "sphere_reg_fsLR" ->
                            <<SubjectFile("L", "sphere_reg"), SubjectFile("R", "sphere_reg")>>
                      [] OTHER -> [kind |-> "ribbon", frame |-> T1w]],
      undershoot |-> FALSE, avail |-> TemplateFlow] :
        x \in {"91k", "170k"} \X BOOLEAN \X SurfaceLists}

\* init_goodvoxels_bold_mask_wf is run on a grid of NVox voxels.  A BOLD
\* series is told by its pattern: "uniform" gives every voxel the same quiet
\* signal, "outlier" makes the last voxel noisy, "calm" makes it quieter than
\* the others, "hole" has a noisy last voxel and a first voxel without signal,
\* "undershoot" a first voxel whose signal is mostly negative.
\* The signal of a voxel is base + amp in odd volumes, base - amp in even ones.
NVox == 3

VoxelSignal(pattern, i) ==
    CASE pattern = "hole" /\ i = 1 -> [base |-> 0, amp |-> 0]
      [] pattern = "undershoot" /\ i = 1 -> [base |-> -2000, amp |-> 3000]
      [] pattern \in {"outlier", "hole"} /\ i = NVox -> [base |-> 10000, amp |-> 8000]
      [] pattern = "calm" /\ i = NVox -> [base |-> 10000, amp |-> 500]
      [] OTHER -> [base |-> 10000, amp |-> 1000]

BoldSeries(pattern) ==
    [kind |-> "series", frame |-> T1w,
     vols |-> [v \in 1..NVols |->
                Img("bold", T1w, v,
                    [i \in 1..NVox |->
                        IF v % 2 = 1
                        THEN VoxelSignal(pattern, i).base + VoxelSignal(pattern, i).amp
                        ELSE VoxelSignal(pattern, i).base - VoxelSignal(pattern, i).amp])]]

\* the cortical ribbon: every voxel, all but the last, or all but the first
Ribbon(extent) ==
    Img("ribbon", T1w, 0,
        [i \in 1..NVox |->
            IF (extent = "not_last" /\ i = NVox) \/ (extent = "not_first" /\ i = 1)
            THEN 0 ELSE 10000])

GoodvoxelsRuns ==
    {[wf |-> "goodvoxels",
      inputs |-> [f \in {"bold_file", "anat_ribbon"} |->
                    IF f = "bold_file" THEN BoldSeries(x[1]) ELSE Ribbon(x[2])],
      undershoot |-> FALSE, avail |-> TemplateFlow] :
        x \in {"uniform", "outlier", "calm", "hole", "undershoot"} \X {"all", "not_last", "not_first"}}

Runs == StdFanOutRuns \cup StdChainRuns \cup StdOptionalRuns \cup PreprocRuns
        \cup GrayordsRuns \cup TemplateCalls \cup SurfRuns \cup FsLRRuns
        \cup GoodvoxelsRuns

Init ==
    /\ cfg \in Runs
    /\ graph = Expanded(cfg)
    /\ st = [ni \in graph.instances |-> "pending"]
    /\ val = [ni \in graph.instances |-> EmptyDict]
    /\ calls = [ni \in graph.instances |-> <<>>]
    /\ arrived = <<>>

Next ==
    \/ \E ni \in graph.instances : NodeRuns(ni)
    \/ \E ni \in graph.instances : NodeCrashes(ni)

Spec == Init /\ [][Next]_vars

(***************************************************************************)
(* Properties.                                                             *)
(***************************************************************************)
IsDone(n, b) == <<n, b>> \in DOMAIN st /\ st[<<n, b>>] = "done"

Branches == 1..graph.width

Max(a, b) == IF a > b THEN a ELSE b

\* the resolution _select_template settles on for a request the archive
\* holds at resolutions 1 and 2
RequestedRes(target) ==
    IF "res" \in DOMAIN target[2] /\ target[2]["res"] # "native" THEN target[2]["res"]
    ELSE "2"

\* the head-motion transform of volume v, split off the per-volume file
HmcOf(v) == [HmcXforms.xs[1] EXCEPT !.n = 1, !.vol = v]

\* C1: when the join node outputnode of init_bold_std_trans_wf has run, each of
\* bold_std, bold_std_ref, bold_mask_std, spatial_reference and template is a
\* list with one entry per requested space, and entry i is what the branch of
\* request i produced: the request's space name, its formatted reference, and
\* images on the grid of that request's template and resolution -- whatever
\* the order in which the branches completed.
C1_JoinInRequestOrder ==
    (cfg.wf = "std" /\ IsDone("outputnode", 0)) =>
        LET o == val[<<"outputnode", 0>>]
            N == Len(cfg.spaces)
        IN  /\ \A f \in {"bold_std", "bold_std_ref", "bold_mask_std",
                         "spatial_reference", "template"} :
                    /\ f \in DOMAIN o
                    /\ Len(o[f]) = N
                    /\ \A i \in 1..N : o[f][i] = val[<<"poutputnode", i>>][f]
            /\ \A i \in 1..N :
                    /\ o["template"][i] = cfg.spaces[i][1]
                    /\ o["spatial_reference"][i] = format_reference(cfg.spaces[i])
                    /\ \A v \in 1..NVols :
                        /\ o["bold_std"][i].vols[v].frame = cfg.spaces[i][1]
                        /\ o["bold_std"][i].vols[v].grid.fixed.resolution
                                = RequestedRes(cfg.spaces[i])
                    /\ o["bold_mask_std"][i].frame = cfg.spaces[i][1]
                    /\ o["bold_mask_std"][i].grid.fixed.resolution
                                = RequestedRes(cfg.spaces[i])
                    /\ o["bold_std_ref"][i].of = o["bold_std"][i].vols[1].grid

\* C1 witness: two spaces were requested, the branch of the second completed
\* first, and the join has run.
C1_Witness ==
    /\ cfg.wf = "std" /\ IsDone("outputnode", 0)
    /\ Len(cfg.spaces) = 2
    /\ arrived = << <<"poutputnode", 2>>, <<"poutputnode", 1>> >>

\* the transform select_std picks for branch b: the one stored at the index of
\* the branch's space name in templates
SelectedXfm(b) ==
    cfg.inputs["anat2std_xfm"][IndexOf(cfg.inputs["templates"], cfg.spaces[b][1])].xs[1]

StdBoldChain(b, v) ==
    <<SelectedXfm(b), cfg.inputs["itk_bold_to_t1"].xs[1]>>
    \o (IF "fieldwarp" \in DOMAIN cfg.inputs THEN cfg.inputs["fieldwarp"].xs ELSE <<>>)
    \o <<HmcOf(v)>>

\* C2: in every branch of init_bold_std_trans_wf the BOLD resampler is called
\* once per volume with the transform list [selected anatomical-to-standard
\* transform, functional-to-anatomical affine, fieldwarp if bound, the
\* volume's head-motion transform], in that order and with nothing else.
C2_StdTransformChain ==
    cfg.wf = "std" =>
        \A b \in Branches :
            IsDone("bold_to_std_transform", b) =>
                /\ Len(calls[<<"bold_to_std_transform", b>>]) = NVols
                /\ \A v \in 1..NVols :
                    calls[<<"bold_to_std_transform", b>>][v].transforms
                        = StdBoldChain(b, v)

\* C2 witness: the resampler of a branch ran with the affine given as a list
\* and no fieldwarp bound (a chain of three).
C2_Witness ==
    /\ cfg.wf = "std" /\ IsDone("bold_to_std_transform", 1)
    /\ cfg.inputs["itk_bold_to_t1"].t = "list"
    /\ "fieldwarp" \notin DOMAIN cfg.inputs
    /\ Len(calls[<<"bold_to_std_transform", 1>>][1].transforms) = 3

\* C3 (as claimed): in init_bold_preproc_trans_wf the chain handed to the
\* resampler holds the fieldwarp only if use_fieldwarp is true; with
\* use_fieldwarp false it is the head-motion transform alone, whatever is bound
\* to the fieldwarp input.
C3_FieldwarpOnlyIfEnabled ==
    (cfg.wf = "preproc" /\ IsDone("bold_transform", 0)) =>
        \A v \in 1..NVols :
            calls[<<"bold_transform", 0>>][v].transforms
                = (IF cfg.use_fieldwarp /\ "fieldwarp" \in DOMAIN cfg.inputs
                   THEN cfg.inputs["fieldwarp"].xs ELSE <<>>) \o <<HmcOf(v)>>

\* the nodes that interpolate
Resamplers(g) ==
    {n \in DOMAIN g.nodes : g.nodes[n].iface \in {"ApplyTransforms", "MultiApplyTransforms"}}

\* the numbers of interpolating nodes met on the paths of the graph from node
\* n to node target, both included
RECURSIVE PathCounts(_, _, _, _)
PathCounts(g, n, target, k) ==
    LET w == IF n \in Resamplers(g) THEN 1 ELSE 0
    IN  IF n = target THEN {w}
        ELSE IF k = 0 THEN {}
        ELSE {w + x : x \in UNION {PathCounts(g, e.dst, target, k - 1) :
                                        e \in {y \in g.edges : y.src = n}}}

\* the same from the input BOLD volumes: the nodes fed by bold_split / bold_file
BoldPathCounts(g, target) ==
    UNION {PathCounts(g, e.dst, target, Cardinality(DOMAIN g.nodes)) :
            e \in {y \in g.edges : y.src = "inputnode"
                                     /\ y.out \in {"bold_split", "bold_file"}}}

BoldResampler == IF cfg.wf = "std" THEN "bold_to_std_transform" ELSE "bold_transform"

BoldOutput(b) ==
    IF cfg.wf = "std" THEN val[<<"poutputnode", b>>]["bold_std"]
    ELSE val[<<"outputnode", 0>>]["bold"]

BoldOutputDone(b) ==
    IF cfg.wf = "std" THEN IsDone("poutputnode", b) ELSE IsDone("outputnode", 0)

MergeReplicas == {b \in 0..graph.width : <<"merge", b>> \in graph.instances}

\* C4: in init_bold_std_trans_wf and init_bold_preproc_trans_wf every path of the
\* graph from the input BOLD volumes to the node that assembles the output
\* series passes exactly one interpolating node; the resampler is handed
\* volumes that were never interpolated, and every volume of the output series
\* was interpolated exactly once.
C4_SinglePass ==
    cfg.wf \in {"std", "preproc"} =>
        \A b \in MergeReplicas :
            /\ IsDone(BoldResampler, b) =>
                \A v \in 1..NVols : calls[<<BoldResampler, b>>][v].input.passes = 0
            /\ BoldOutputDone(b) =>
                /\ BoldPathCounts(graph, "merge") = {1}
                /\ BoldOutput(b) = val[<<"merge", b>>]["out_file"]
                /\ \A v \in 1..NVols : BoldOutput(b).vols[v].passes = 1

\* C4 witness: both output series of a two-space run of the standard-space
\* workflow are there.
C4_Witness ==
    /\ cfg.wf = "std" /\ Len(cfg.spaces) = 2
    /\ BoldOutputDone(1) /\ BoldOutputDone(2)
    /\ BoldOutput(2).vols[NVols].passes = 1

\* C5: in both volumetric resamplers the merged series holds, volume by volume
\* and in the order of the input, the values the interpolation returned with
\* the negative ones set to zero: -0.3, -0.0001, 0, 5 become 0, 0, 0, 5; the
\* clipping step never fails.
C5_ClipNegatives ==
    cfg.wf \in {"std", "preproc"} =>
        \A b \in MergeReplicas :
            /\ st[<<"threshold", b>>] # "failed"
            /\ IsDone("merge", b) =>
                LET rs == val[<<BoldResampler, b>>]["out_files"]
                    m == val[<<"merge", b>>]["out_file"].vols
                IN  /\ Len(m) = NVols
                    /\ \A v \in 1..NVols :
                        /\ m[v].vol = v
                        /\ DOMAIN m[v].data = DOMAIN rs[v].data
                        /\ \A i \in DOMAIN m[v].data :
                                m[v].data[i] = Max(rs[v].data[i], 0)
                    /\ (rs[1].data = <<-3000, -1>> /\ rs[2].data = <<0, 50000>>)
                            => (m[1].data = <<0, 0>> /\ m[2].data = <<0, 50000>>)

\* C5 witness: the interpolation returned -0.3, -0.0001, 0, 5 and the series
\* was merged.
C5_Witness ==
    /\ cfg.wf = "preproc" /\ IsDone("merge", 0)
    /\ val[<<"bold_transform", 0>>]["out_files"][1].data = <<-3000, -1>>
    /\ val[<<"bold_transform", 0>>]["out_files"][2].data = <<0, 50000>>
    /\ val[<<"merge", 0>>]["out_file"].vols[1].data = <<0, 0>>

\* C6: in init_bold_std_trans_wf a branch whose space name is a key of templates
\* gets from select_std the one transform stored at that key's index, and
\* every resampling call of the branch starts its chain with it; a branch whose
\* space name is no key of templates fails at select_std, and none of its
\* resampling nodes ever runs or calls the resampler.
C6_KeySelectOrFail ==
    cfg.wf = "std" =>
        \A b \in Branches :
            LET known == cfg.spaces[b][1] \in Range(cfg.inputs["templates"])
            IN  /\ IsDone("select_std", b) =>
                    /\ known
                    /\ val[<<"select_std", b>>]["anat2std_xfm"].xs = <<SelectedXfm(b)>>
                    /\ val[<<"select_std", b>>]["anat2std_xfm"].xs[1].dst = cfg.spaces[b][1]
                /\ ~known =>
                    /\ st[<<"select_std", b>>] \in {"pending", "failed"}
                    /\ \A r \in Resamplers(graph) :
                        /\ st[<<r, b>>] \in {"pending", "skipped"}
                        /\ calls[<<r, b>>] = <<>>
                /\ \A r \in Resamplers(graph) :
                        \A k \in DOMAIN calls[<<r, b>>] :
                            calls[<<r, b>>][k].transforms[1] = SelectedXfm(b)

\* C6 witness: of two requested spaces, the one with the cohort qualifier has
\* no key and failed at select_std, the other one was resampled with the
\* transform stored at its key.
C6_Witness ==
    /\ cfg.wf = "std" /\ Len(cfg.spaces) = 2
    /\ cfg.spaces[1][1] = PediatricCohort6
    /\ st[<<"select_std", 1>>] = "failed"
    /\ st[<<"bold_to_std_transform", 1>>] = "skipped"
    /\ IsDone("bold_to_std_transform", 2)
    /\ cfg.inputs["templates"][1] = NLin6

\* the runs of _select_template: the select_tpl nodes and the request each got
TplInstances == {ni \in graph.instances : ni[1] = "select_tpl"}

TplRequest(ni) == IF cfg.wf = "tpl" THEN cfg.template ELSE cfg.spaces[ni[2]]

\* the resolutions a request names, under either key
NamedRes(t) == {t[2][k] : k \in {"res", "resolution"} \cap DOMAIN t[2]}

LookedUp(ni) == [k \in DOMAIN calls[ni] |-> calls[ni][k].specs["resolution"]]

\* C7: a finished call of _select_template whose request names one resolution
\* other than "native" made exactly one lookup, at that resolution, and
\* succeeded exactly when the archive holds it; a call whose request names no
\* resolution or "native" looked up resolution 2 first and resolution 1 only
\* after the lookup at 2 failed, failed only when both failed, and returned
\* the image of the first lookup that matched.
C7_ResolutionPolicy ==
    \A ni \in TplInstances :
        LET t == TplRequest(ni)
            named == NamedRes(t)
            finished == st[ni] \in {"done", "failed"}
        IN  /\ (finished /\ Cardinality(named) = 1 /\ named # {"native"}) =>
                /\ Len(calls[ni]) = 1
                /\ LookedUp(ni)[1] \in named
                /\ st[ni] = "done" <=> named \subseteq cfg.avail
                /\ st[ni] = "done" => val[ni]["out"].resolution \in named
            /\ (finished /\ named \subseteq {"native"}) =>
                /\ LookedUp(ni) \in { <<"2">>, <<"2", "1">> }
                /\ LookedUp(ni) = <<"2", "1">> <=> "2" \notin cfg.avail
                /\ st[ni] = "failed" <=> cfg.avail \cap {"1", "2"} = {}
                /\ st[ni] = "done" =>
                    val[ni]["out"].resolution = LookedUp(ni)[Len(LookedUp(ni))]
            /\ st[ni] = "done" =>
                /\ val[ni]["out"].kind = "template"
                /\ val[ni]["out"].template = <<t[1][1]>>

\* C7 witness: a request for the native resolution against an archive without
\* resolution 2 was answered by the fallback lookup at resolution 1.
C7_Witness ==
    /\ cfg.wf = "tpl" /\ cfg.template[2] = [res |-> "native"]
    /\ "2" \notin cfg.avail
    /\ IsDone("select_tpl", 0)
    /\ LookedUp(<<"select_tpl", 0>>) = <<"2", "1">>
    /\ val[<<"select_tpl", 0>>]["out"].resolution = "1"

\* the key init_bold_grayords_wf must select at, written out per density
ExpectedGrayordsKey ==
    IF cfg.grayord_density = "91k" THEN [us |-> <<"MNI152NLin6Asym", "res-2">>]
    ELSE [us |-> <<"MNI152NLin6Asym", "res-1">>]

\* C8: in init_bold_grayords_wf a finished select_std holds the bold_std entry
\* at the index at which spatial_reference holds MNI152NLin6Asym_res-2 (91k)
\* or MNI152NLin6Asym_res-1 (170k), and that entry is the volume series of the
\* CIFTI file; when no entry of spatial_reference equals that key select_std
\* does not succeed and neither gen_cifti nor outputnode ever run.
C8_GrayordsSelection ==
    cfg.wf = "grayords" =>
        LET keys == cfg.inputs["spatial_reference"]
            present == ExpectedGrayordsKey \in Range(keys)
        IN  /\ IsDone("select_std", 0) =>
                /\ present
                /\ val[<<"select_std", 0>>]["key"] = ExpectedGrayordsKey
                /\ val[<<"select_std", 0>>]["bold_std"]
                        = cfg.inputs["bold_std"][IndexOf(keys, ExpectedGrayordsKey)]
            /\ IsDone("gen_cifti", 0) =>
                val[<<"gen_cifti", 0>>]["out_file"].bold_file
                        = cfg.inputs["bold_std"][IndexOf(keys, ExpectedGrayordsKey)]
            /\ ~present =>
                /\ st[<<"select_std", 0>>] \in {"pending", "failed"}
                /\ st[<<"gen_cifti", 0>>] \in {"pending", "skipped"}
                /\ st[<<"outputnode", 0>>] \in {"pending", "skipped"}

\* C8 witness: at density 170k the series stored second, under the res-1 key,
\* went into the CIFTI file.
C8_Witness ==
    /\ cfg.wf = "grayords" /\ cfg.grayord_density = "170k"
    /\ Len(cfg.inputs["spatial_reference"]) = 2
    /\ cfg.inputs["spatial_reference"][2] = [us |-> <<"MNI152NLin6Asym", "res-1">>]
    /\ IsDone("outputnode", 0)
    /\ val[<<"gen_cifti", 0>>]["out_file"].bold_file = cfg.inputs["bold_std"][2]

\* a chain, in the order it is handed to the resampler (applied last to
\* first), is frame-continuous when every element starts in the frame the
\* element after it ends in
Continuous(chain) ==
    \A i \in 1..(Len(chain) - 1) : chain[i].src = chain[i + 1].dst

ResamplerCalls ==
    {<<ni, k>> \in graph.instances \X (1..NVols) :
        ni[1] \in Resamplers(graph) /\ k \in DOMAIN calls[ni]}

\* the transforms bound to the inputs map the frames their documentation names
DocumentedFrames ==
    cfg.wf = "std" =>
        /\ cfg.inputs["itk_bold_to_t1"].xs[1].src = BoldRef
        /\ cfg.inputs["itk_bold_to_t1"].xs[1].dst = T1w

AwaitedBy(e, ni) ==
    IF e.src \notin graph.below THEN {<<e.src, 0>>}
    ELSE IF ni[2] = 0 THEN {<<e.src, k>> : k \in 1..graph.width}
    ELSE {<<e.src, ni[2]>>}

JoinInstances == {ni \in graph.instances : graph.nodes[ni[1]].join # ""}

\* C10: in init_bold_std_trans_wf, init_bold_surf_wf and
\* init_bold_fsLR_resampling_wf, as in every graph of the file, a node that has
\* started (run or raised) had every node feeding its connected inputs done;
\* a join node that has run found every node of every branch of its join
\* source done, and each of its joined fields holds one entry per branch,
\* the entry of branch k being what branch k produced.
C10_JoinBarrier ==
    /\ \A ni \in graph.instances :
            st[ni] \in {"done", "failed"} =>
                \A e \in {x \in graph.edges : x.dst = ni[1]} :
                    \A si \in AwaitedBy(e, ni) : st[si] = "done"
    /\ \A ji \in JoinInstances :
            st[ji] = "done" =>
                /\ \A ni \in graph.instances : ni[2] # 0 => st[ni] = "done"
                /\ \A e \in {x \in graph.edges : x.dst = ji[1] /\ x.src \in graph.below} :
                        /\ e.in \in DOMAIN val[ji]
                        /\ Len(val[ji][e.in]) = graph.width
                        /\ \A k \in 1..graph.width :
                                val[ji][e.in][k] = ApplyFn(e.fn, val[<<e.src, k>>][e.out])

\* C10 witness: the join node of init_bold_surf_wf has run after the branch of
\* the second target reached it before the branch of the first.
C10_Witness ==
    /\ cfg.wf = "surf" /\ Len(cfg.surface_spaces) = 2
    /\ IsDone("joinnode", 0)
    /\ \E i, j \in DOMAIN arrived :
            /\ i < j
            /\ arrived[i] = <<"update_metadata", 2>>
            /\ arrived[j] = <<"update_metadata", 1>>
    /\ val[<<"joinnode", 0>>]["target"] = cfg.surface_spaces

\* the instances of branch b that raised
FailedIn(b) == {ni \in graph.instances : ni[2] = b /\ st[ni] = "failed"}

\* nothing is left to run
Quiescent == \A ni \in graph.instances : ~Ready(graph, st, ni)

\* C11 as stated: once a node of a branch has raised, the branch stops: no
\* node of that branch starts any more.
C11_BranchStopsImmediately ==
    [][\A ni \in graph.instances :
            (ni[2] # 0 /\ FailedIn(ni[2]) # {}) => st'[ni] = st[ni]]_vars

\* C11 as amended: when a node of one branch raises, every node downstream of
\* it is taken out of the run without having run or written anything, the
\* node of that branch that feeds the join among them, and the join node with
\* it, so no joined output exists; only nodes downstream of a node that raised
\* are ever taken out, and they lie in the same branch or behind the join, so
\* a sibling branch is never aborted and, once nothing is left to run, has run
\* to its end.  (Nodes of the failed branch that do not depend on the node
\* that raised may still run.)
C11_FailureIsolation ==
    /\ \A ni \in graph.instances :
            /\ st[ni] = "skipped" =>
                /\ \E f \in graph.instances : st[f] = "failed" /\ ni \in graph.descendants[f]
                /\ val[ni] = EmptyDict /\ calls[ni] = <<>>
            /\ st[ni] = "failed" =>
                /\ val[ni] = EmptyDict
                /\ \A d \in graph.descendants[ni] :
                        st[d] = "skipped" /\ (ni[2] # 0 => d[2] \in {ni[2], 0})
    /\ \A b \in Branches :
            /\ FailedIn(b) # {} =>
                \A ji \in JoinInstances :
                    /\ st[ji] = "skipped" /\ val[ji] = EmptyDict
                    /\ \A x \in graph.feeders[ji] : x[2] = b => st[x] = "skipped"
            /\ (Quiescent /\ FailedIn(b) = {} /\ FailedIn(0) = {}) =>
                \A ni \in graph.instances : ni[2] = b => st[ni] = "done"

\* C11 witness: of two requested spaces the first had no key and failed at
\* select_std; its gen_ref still ran, the second branch ran to its end, the
\* join never ran and nothing is left to run.
C11_Witness ==
    /\ cfg.wf = "std" /\ Len(cfg.spaces) = 2
    /\ st[<<"select_std", 1>>] = "failed"
    /\ IsDone("gen_ref", 1)
    /\ st[<<"poutputnode", 1>>] = "skipped"
    /\ IsDone("poutputnode", 2)
    /\ st[<<"outputnode", 0>>] = "skipped"
    /\ Quiescent

\* init_goodvoxels_bold_mask_wf: the data a node of the run put out
GvDone(n) == cfg.wf = "goodvoxels" /\ IsDone(n, 0)

GvData(n) == val[<<n, 0>>]["out_file"].data

Voxels == 1..NVox

\* a voxel is in a mask when the mask is positive there
InMask(d, i) == d[i] > 0

Upper == val[<<"upper_thr_val", 0>>]["upper_thresh"]

\* C12 as stated: a voxel is in the goodvoxels mask exactly when its modulated
\* normalized COV is at most upper and it lies in the binarized mean-signal
\* mask, so a voxel whose COV equals upper is kept.
C12_KeptUpToUpper ==
    GvDone("goodvoxels_mask") =>
        \A i \in Voxels :
            InMask(GvData("goodvoxels_mask"), i) <=>
                /\ GvData("cov_norm_modulate")[i] <= Upper
                /\ InMask(GvData("bin_mean_volume"), i)

\* C12 as amended: a voxel is in the goodvoxels mask exactly when it lies in
\* the binarized mean-signal mask and its modulated normalized COV is below
\* upper (or not positive); a voxel whose COV equals or exceeds upper is out.
C12_KeptBelowUpper ==
    GvDone("goodvoxels_mask") =>
        \A i \in Voxels :
            InMask(GvData("goodvoxels_mask"), i) <=>
                /\ GvData("cov_norm_modulate")[i] < Upper
                   \/ GvData("cov_norm_modulate")[i] <= 0
                /\ InMask(GvData("bin_mean_volume"), i)

\* C12 witness: the mask was made, and of two voxels with signal one has a
\* modulated COV equal to upper and is out, the other a COV below upper and
\* is in
C12_Witness ==
    /\ GvDone("goodvoxels_mask")
    /\ \E i, j \in Voxels :
            /\ InMask(GvData("bin_mean_volume"), i) /\ InMask(GvData("bin_mean_volume"), j)
            /\ GvData("cov_norm_modulate")[i] = Upper
            /\ ~InMask(GvData("goodvoxels_mask"), i)
            /\ GvData("cov_norm_modulate")[j] < Upper
            /\ InMask(GvData("goodvoxels_mask"), j)

\* the goodvoxels mask nodes goodvoxels_thr and goodvoxels_mask make of the
\* modulated COV and the binarized mean of the run at upper threshold upper
MaskAt(upper) ==
    LET thr == FslMaths(graph.nodes["goodvoxels_thr"].iface,
                        Union2(graph.nodes["goodvoxels_thr"].static,
                               [f \in {"in_file", "thresh"} |->
                                    IF f = "thresh" THEN upper
                                    ELSE val[<<"cov_norm_modulate", 0>>]["out_file"]]))
    IN  FslMaths(graph.nodes["goodvoxels_mask"].iface,
                 Union2(graph.nodes["goodvoxels_mask"].static,
                        [f \in {"in_file", "operand_files"} |->
                            IF f = "in_file" THEN thr.out["out_file"]
                            ELSE val[<<"merge_goodvoxels_operands", 0>>]["out"]])
                ).out["out_file"].data

\* thresholds at, just below and just above every value of the modulated COV
ThresholdsTried ==
    {v + d : v \in Range(GvData("cov_norm_modulate")) \cup {0}, d \in {-1, 0, 1}}

\* C13: for the modulated COV and the mean-signal mask of a run, the goodvoxels
\* mask at threshold upper1 is a subset of the mask at any upper2 >= upper1.
C13_MaskGrowsWithUpper ==
    (GvDone("cov_norm_modulate") /\ GvDone("merge_goodvoxels_operands")) =>
        \A u1, u2 \in ThresholdsTried :
            u1 <= u2 =>
                \A i \in Voxels : InMask(MaskAt(u1), i) => InMask(MaskAt(u2), i)

\* C13 witness: the mask the run made at its own threshold lacks a voxel that
\* a higher threshold lets in
C13_Witness ==
    /\ GvDone("goodvoxels_mask")
    /\ MaskAt(Upper) = GvData("goodvoxels_mask")
    /\ \E u \in ThresholdsTried, i \in Voxels :
            /\ Upper < u
            /\ ~InMask(GvData("goodvoxels_mask"), i)
            /\ InMask(MaskAt(u), i)

\* the non-zero values of d at the voxels of mask, in voxel order
ValuesWithin(d, mask) == SelectSeq([i \in Voxels |-> IF mask[i] > 0 THEN d[i] ELSE 0],
                                   LAMBDA v : v # 0)

RibbonOnBold == val[<<"ribbon_boldsrc_xfm", 0>>]["output_image"]

\* C14: the statistics are merged as [mean, std] of the modulated COV within
\* the ribbon, both fslstats calls reading the ribbon-masked modulated volume;
\* upper is mean + 0.5*std and lower is std - 0.5*mean of exactly these.
C14_ThresholdFormulas ==
    (GvDone("upper_thr_val") /\ GvDone("lower_thr_val")) =>
        LET within == ValuesWithin(GvData("cov_norm_modulate"), RibbonOnBold.data)
            mod_mean == MeanOf(within)
            mod_std == StdOf(within)
        IN  /\ val[<<"merge_mod_ribbon_stats", 0>>]["out"].xs = <<mod_mean, mod_std>>
            /\ Upper = mod_mean + (mod_std * 5) \div 10
            /\ val[<<"lower_thr_val", 0>>]["lower_thresh"] = mod_std - (mod_mean * 5) \div 10
            /\ \A n \in {"mod_ribbon_mean", "mod_ribbon_std"} :
                    /\ Len(calls[<<n, 0>>]) = 1
                    /\ calls[<<n, 0>>][1].input = val[<<"cov_norm_modulate_ribbon", 0>>]["out_file"]
                    /\ calls[<<n, 0>>][1].op = IF n = "mod_ribbon_mean" THEN "-M" ELSE "-S"

\* C14 witness: both thresholds were computed from statistics with a positive
\* standard deviation that differ from those of the raw COV in the ribbon,
\* and the lower threshold is negative
C14_Witness ==
    /\ GvDone("upper_thr_val") /\ GvDone("lower_thr_val") /\ GvDone("cov_ribbon_std")
    /\ val[<<"merge_mod_ribbon_stats", 0>>]["out"].xs[2] > 0
    /\ val[<<"merge_mod_ribbon_stats", 0>>]["out"].xs
            # <<val[<<"cov_ribbon_mean", 0>>]["out_stat"].xs[1],
                val[<<"cov_ribbon_std", 0>>]["out_stat"].xs[1]>>
    /\ val[<<"lower_thr_val", 0>>]["lower_thresh"] < 0
    /\ Upper > 0

\* C15: a voxel is set in goodvoxels_ribbon exactly when it is in the
\* goodvoxels mask and in the ribbon as resampled onto the grid of the BOLD
\* mean with MultiLabel interpolation; so goodvoxels_ribbon lies within both.
C15_RibbonIntersection ==
    GvDone("outputnode") =>
        /\ RibbonOnBold.grid = val[<<"mean_volume", 0>>]["out_file"]
        /\ RibbonOnBold.interp = "MultiLabel"
        /\ val[<<"outputnode", 0>>]["goodvoxels_mask"].data = GvData("goodvoxels_mask")
        /\ \A i \in Voxels :
                InMask(val[<<"outputnode", 0>>]["goodvoxels_ribbon"].data, i) <=>
                    /\ InMask(GvData("goodvoxels_mask"), i)
                    /\ InMask(RibbonOnBold.data, i)

\* C15 witness: the outputs are there; one voxel of the goodvoxels mask lies
\* outside the ribbon and is not in goodvoxels_ribbon, another lies in both
\* and is, and a ribbon voxel outside the goodvoxels mask is not
C15_Witness ==
    /\ GvDone("outputnode")
    /\ \E i, j, k \in Voxels :
            /\ InMask(GvData("goodvoxels_mask"), i) /\ ~InMask(RibbonOnBold.data, i)
            /\ ~InMask(val[<<"outputnode", 0>>]["goodvoxels_ribbon"].data, i)
            /\ InMask(GvData("goodvoxels_mask"), j) /\ InMask(RibbonOnBold.data, j)
            /\ InMask(val[<<"outputnode", 0>>]["goodvoxels_ribbon"].data, j)
            /\ ~InMask(GvData("goodvoxels_mask"), k) /\ InMask(RibbonOnBold.data, k)
            /\ ~InMask(val[<<"outputnode", 0>>]["goodvoxels_ribbon"].data, k)

\* init_bold_fsLR_resampling_wf: what a series handed to the join was made
\* from, stage by stage
ResampledOf(series) == series.inputs["in_file"]

MaskedNativeOf(series) == ResampledOf(series).inputs["in_file"]

DilatedOf(series) == MaskedNativeOf(series).inputs["in_file"]

ProjectionOf(series) == DilatedOf(series).inputs["in_file"]

Hemispheres == <<"L", "R">>

\* C16: bold_fsLR of init_bold_fsLR_resampling_wf is a list of two series, the
\* first made from the left surfaces and the left template files, the second
\* from the right ones, each the whole result of its own branch, in whatever
\* order the branches finished.
C16_HemispherePairing ==
    (cfg.wf = "fsLR" /\ IsDone("outputnode", 0)) =>
        LET out == val[<<"outputnode", 0>>]["bold_fsLR"]
        IN  /\ Len(out) = Len(Hemispheres)
            /\ \A k \in DOMAIN out :
                    /\ out[k] = val[<<"mask_fsLR", k>>]["out_file"]
                    /\ val[<<"itersource", k>>]["hemi"] = Hemispheres[k]
                    /\ out[k].inputs["mask"].hemi = Hemispheres[k]
                    /\ ResampledOf(out[k]).inputs["new_sphere"].hemi = Hemispheres[k]
                    /\ ProjectionOf(out[k]).inputs["surface_file"].hemi = Hemispheres[k]
            /\ out[1] # out[2]

\* C16 witness: the right branch handed its series to the join before the
\* left one did, and the output holds left then right
C16_Witness ==
    /\ cfg.wf = "fsLR" /\ IsDone("outputnode", 0)
    /\ arrived = << <<"mask_fsLR", 2>>, <<"mask_fsLR", 1>> >>
    /\ val[<<"outputnode", 0>>]["bold_fsLR"][1].inputs["mask"].hemi = "L"
    /\ val[<<"outputnode", 0>>]["bold_fsLR"][2].inputs["mask"].hemi = "R"

\* the stages of a hemisphere branch, each with the stage it follows
StageOrder ==
    { <<"initial_roi", "fill_holes">>, <<"fill_holes", "native_roi">>,
      <<"native_roi", "mask_native">>, <<"volume_to_surface", "metric_dilate">>,
      <<"metric_dilate", "mask_native">>, <<"mask_native", "resample_to_fsLR">>,
      <<"resample_to_fsLR", "mask_fsLR">> }

Stages == {p[1] : p \in StageOrder} \cup {p[2] : p \in StageOrder}

\* C17: in each hemisphere branch a stage has only started when the stage
\* before it is done and runs its tool once; the series handed to the join is
\* the template-ROI mask of the area-adaptive resampling of the native-ROI
\* mask of the dilation (distance 10, nearest) of the volume-to-surface
\* projection of the input series, and the native ROI is island removal of
\* hole filling of the initial ROI made from the thickness file.
C17_StageOrder ==
    cfg.wf = "fsLR" =>
        \A k \in Branches :
            /\ \A p \in StageOrder :
                    st[<<p[2], k>>] \in {"done", "failed"} => st[<<p[1], k>>] = "done"
            /\ \A n \in Stages : IsDone(n, k) => Len(calls[<<n, k>>]) = 1
            /\ IsDone("mask_fsLR", k) =>
                LET series == val[<<"mask_fsLR", k>>]["out_file"]
                    roi == MaskedNativeOf(series).inputs["mask"]
                IN  /\ series.kind = "MetricMask"
                    /\ series.inputs["mask"].name = "atlasroi"
                    /\ ResampledOf(series).kind = "MetricResample"
                    /\ ResampledOf(series).inputs["method"] = "ADAP_BARY_AREA"
                    /\ ResampledOf(series).inputs["area_surfs"]
                    /\ MaskedNativeOf(series).kind = "MetricMask"
                    /\ DilatedOf(series).kind = "MetricDilate"
                    /\ DilatedOf(series).inputs["distance"] = 10
                    /\ DilatedOf(series).inputs["nearest"]
                    /\ ProjectionOf(series).kind = "VolumeToSurfaceMapping"
                    /\ ProjectionOf(series).inputs["volume_file"] = cfg.inputs["bold_file"]
                    /\ roi = val[<<"native_roi", k>>]["out_file"]
                    /\ roi.kind = "MetricRemoveIslands"
                    /\ roi.inputs["metric_file"].kind = "MetricFillHoles"
                    /\ roi.inputs["metric_file"].inputs["metric_file"].kind = "CreateROI"
                    /\ roi.inputs["metric_file"].inputs["metric_file"]
                            .inputs["thickness_file"].name = "thickness"

\* C17 witness: the left branch has handed its series to the join while the
\* right branch has projected and dilated but not yet built its ROI
C17_Witness ==
    /\ cfg.wf = "fsLR"
    /\ IsDone("mask_fsLR", 1)
    /\ IsDone("metric_dilate", 2)
    /\ st[<<"initial_roi", 2>>] = "pending"
    /\ st[<<"mask_native", 2>>] = "pending"

\* C18: with estimate_goodvoxels the estimator is a node of the graph, fed
\* bold_file and anat_ribbon of the input node; its goodvoxels mask is the
\* volume ROI of the projection of both hemispheres and the goodvoxels_mask
\* output.  Without it there is no estimator node, no projection has a volume
\* ROI, and goodvoxels_mask stays unset while bold_fsLR is produced.
C18_OptionalGoodvoxels ==
    cfg.wf = "fsLR" =>
        LET estimator == <<"goodvoxels_bold_mask_wf", 0>>
            projected == {k \in Branches : IsDone("volume_to_surface", k)}
        IN  /\ cfg.estimate_goodvoxels <=> estimator \in graph.instances
            /\ cfg.estimate_goodvoxels =>
                /\ st[estimator] = "done" =>
                    /\ Len(calls[estimator]) = 1
                    /\ calls[estimator][1].inputs["inputnode.bold_file"]
                            = cfg.inputs["bold_file"]
                    /\ calls[estimator][1].inputs["inputnode.anat_ribbon"]
                            = cfg.inputs["anat_ribbon"]
                /\ \A k \in projected :
                        /\ st[estimator] = "done"
                        /\ val[<<"volume_to_surface", k>>]["out_file"].inputs["volume_roi"]
                                = val[estimator]["outputnode.goodvoxels_mask"]
                /\ IsDone("outputnode", 0) =>
                        val[<<"outputnode", 0>>]["goodvoxels_mask"]
                            = val[estimator]["outputnode.goodvoxels_mask"]
            /\ ~cfg.estimate_goodvoxels =>
                /\ \A k \in projected :
                        "volume_roi" \notin
                            DOMAIN val[<<"volume_to_surface", k>>]["out_file"].inputs
                /\ IsDone("outputnode", 0) =>
                        /\ "goodvoxels_mask" \notin DOMAIN val[<<"outputnode", 0>>]
                        /\ Len(val[<<"outputnode", 0>>]["bold_fsLR"]) = 2

\* C18 witness: a run with the estimator whose output node holds the mask
\* both projections used
C18_Witness ==
    /\ cfg.wf = "fsLR" /\ cfg.estimate_goodvoxels /\ IsDone("outputnode", 0)
    /\ \A k \in Branches :
            val[<<"volume_to_surface", k>>]["out_file"].inputs["volume_roi"]
                = val[<<"outputnode", 0>>]["goodvoxels_mask"]

\* C18 witness of the other case: a run without the estimator that produced
\* bold_fsLR and no goodvoxels_mask
C18_WitnessWithout ==
    /\ cfg.wf = "fsLR" /\ ~cfg.estimate_goodvoxels /\ IsDone("outputnode", 0)
    /\ DOMAIN val[<<"outputnode", 0>>] = {"bold_fsLR"}

\* the files select_surfaces is given, and whether they hold one file of
\* each hemisphere for every role
SurfaceFilesIn == cfg.inputs["surfaces"] \o cfg.inputs["morphometrics"]

OnePerRole ==
    /\ \A r \in {"white", "pial", "midthickness", "thickness"}, h \in Range(Hemispheres) :
            Len(SelectSeq(SurfaceFilesIn, LAMBDA f : f.name = r /\ f.hemi = h)) = 1
    /\ \A h \in Range(Hemispheres) :
            Len(SelectSeq(cfg.inputs["sphere_reg_fsLR"], LAMBDA f : f.hemi = h)) = 1

\* C19: given one left and one right file per role, select_surfaces of
\* hemisphere hemi does not fail and returns under its seven output names the
\* white, pial, midthickness, thickness, sphere registration, template sphere
\* and template ROI file of that hemisphere; a midthickness file is found as
\* midthickness and a thickness file as thickness.
C19_SelectSurfacesSlots ==
    (cfg.wf = "fsLR" /\ OnePerRole) =>
        /\ \A f \in Range(SurfaceFilesIn) :
                f.name \in {"midthickness", "thickness"} => find_name(f) = f.name
        /\ \A k \in Branches :
                /\ st[<<"select_surfaces", k>>] # "failed"
                /\ IsDone("select_surfaces", k) =>
                    LET out == val[<<"select_surfaces", k>>]
                        hemi == val[<<"itersource", k>>]["hemi"]
                    IN  /\ DOMAIN out = Range(SelectSurfacesOutputNames)
                        /\ \A r \in {"white", "pial", "midthickness", "thickness"} :
                                out[r] = SubjectFile(hemi, r)
                        /\ out["sphere_reg"] = SubjectFile(hemi, "sphere_reg")
                        /\ out["template_sphere"]
                                = TemplateFile(hemi, "sphere", fslr_density(cfg.grayord_density))
                        /\ out["template_roi"].hemi = hemi
                        /\ out["template_roi"].name = "atlasroi"

\* C19 witness: the surfaces were given right hemisphere first, and the node
\* of the right hemisphere returned the right midthickness and thickness files
C19_Witness ==
    /\ cfg.wf = "fsLR" /\ OnePerRole
    /\ cfg.inputs["surfaces"][1].hemi = "R"
    /\ IsDone("select_surfaces", 2)
    /\ val[<<"select_surfaces", 2>>]["midthickness"] = SubjectFile("R", "midthickness")
    /\ val[<<"select_surfaces", 2>>]["thickness"] = SubjectFile("R", "thickness")
    /\ IsDone("select_surfaces", 1)
    /\ val[<<"select_surfaces", 1>>]["white"] = SubjectFile("L", "white")

\* C20: in every branch of init_bold_std_trans_wf the mask resampler is called
\* once, on the bold_mask input, with MultiLabel interpolation, the sampling
\* reference the BOLD resampler of the branch uses, and the chain [selected
\* anatomical-to-standard transform, functional-to-anatomical affine]: no
\* head-motion transform, no fieldwarp, and the same anatomical-to-standard
\* transform as the BOLD series of the branch.
C20_MaskChain ==
    cfg.wf = "std" =>
        \A b \in Branches :
            IsDone("mask_std_tfm", b) =>
                LET made == calls[<<"mask_std_tfm", b>>]
                IN  /\ Len(made) = 1
                    /\ made[1].input = cfg.inputs["bold_mask"]
                    /\ made[1].interpolation = "MultiLabel"
                    /\ made[1].reference = val[<<"gen_ref", b>>]["out_file"]
                    /\ made[1].transforms
                            = <<SelectedXfm(b)>> \o cfg.inputs["itk_bold_to_t1"].xs
                    /\ \A x \in Range(made[1].transforms) :
                            /\ x \notin Range(cfg.inputs["hmc_xforms"].xs)
                            /\ "fieldwarp" \in DOMAIN cfg.inputs =>
                                    x \notin Range(cfg.inputs["fieldwarp"].xs)
                    /\ IsDone("bold_to_std_transform", b) =>
                        \A v \in 1..NVols :
                            /\ calls[<<"bold_to_std_transform", b>>][v].reference
                                    = made[1].reference
                            /\ calls[<<"bold_to_std_transform", b>>][v].transforms[1]
                                    = made[1].transforms[1]

\* C20 witness: with two spaces and a fieldwarp bound, the mask and the BOLD
\* series of the second branch were both resampled, the mask with a chain of
\* two, the series with a chain of four, and the masks of the two branches
\* with different anatomical-to-standard transforms
C20_Witness ==
    /\ cfg.wf = "std" /\ Len(cfg.spaces) = 2 /\ "fieldwarp" \in DOMAIN cfg.inputs
    /\ IsDone("mask_std_tfm", 1) /\ IsDone("mask_std_tfm", 2)
    /\ IsDone("bold_to_std_transform", 2)
    /\ Len(calls[<<"mask_std_tfm", 2>>][1].transforms) = 2
    /\ Len(calls[<<"bold_to_std_transform", 2>>][1].transforms) = 4
    /\ calls[<<"mask_std_tfm", 2>>][1].transforms[1] # calls[<<"mask_std_tfm", 1>>][1].transforms[1]

\* C21: in init_bold_surf_wf the input in_file of update_metadata has exactly
\* one producer.  With medial_surface_nan, update_metadata of each target is
\* given, per hemisphere, what medial_nans made of the surface sampler
\* produced for that target and hemisphere; without it there is no medial_nans
\* node and update_metadata is given the sampled surfaces themselves.  Once
\* outputnode has run, its target list is surface_spaces and entry i of its
\* surfaces is what update_metadata produced for target i, in whatever order
\* the targets completed.
C21_MedialWallRouting ==
    cfg.wf = "surf" =>
        /\ Cardinality({e \in graph.edges :
                            e.dst = "update_metadata" /\ e.in = "in_file"}) = 1
        /\ ~cfg.medial_surface_nan =>
                \A ni \in graph.instances : ni[1] # "medial_nans"
        /\ \A b \in Branches :
                IsDone("update_metadata", b) =>
                    LET out == val[<<"update_metadata", b>>]["out_file"]
                        sampled == val[<<"sampler", b>>]["out_file"]
                    IN  /\ Len(out) = 2 /\ Len(sampled) = 2
                        /\ \A h \in 1..2 :
                            LET given == out[h].inputs["in_file"]
                            IN  /\ sampled[h].kind = "SampleToSurface"
                                /\ sampled[h].inputs["hemi"] = <<"lh", "rh">>[h]
                                /\ sampled[h].inputs["target_subject"]
                                        = select_target(cfg.inputs["subject_id"],
                                                        cfg.surface_spaces[b])
                                /\ IF cfg.medial_surface_nan
                                   THEN /\ given.kind = "MedialNaNs"
                                        /\ given = val[<<"medial_nans", b>>]["out_file"][h]
                                        /\ given.inputs["in_file"] = sampled[h]
                                   ELSE given = sampled[h]
        /\ IsDone("outputnode", 0) =>
                LET o == val[<<"outputnode", 0>>]
                IN  /\ o["target"] = cfg.surface_spaces
                    /\ Len(o["surfaces"]) = Len(cfg.surface_spaces)
                    /\ \A i \in 1..Len(cfg.surface_spaces) :
                            o["surfaces"][i] = val[<<"update_metadata", i>>]["out_file"]

\* C21 witness: two targets with the medial-wall step, the second target's
\* surfaces reached the join before the first's, and outputnode has run
C21_Witness ==
    /\ cfg.wf = "surf" /\ cfg.medial_surface_nan /\ Len(cfg.surface_spaces) = 2
    /\ IsDone("outputnode", 0)
    /\ IndexOf(arrived, <<"update_metadata", 2>>) < IndexOf(arrived, <<"update_metadata", 1>>)
    /\ Len(calls[<<"medial_nans", 1>>]) = 2

\* C21 witness of the other arm: without the medial-wall step the join has run
C21_WitnessDirect ==
    /\ cfg.wf = "surf" /\ ~cfg.medial_surface_nan /\ IsDone("outputnode", 0)

\* C22: every voxel of the goodvoxels_mask output is 0 or 1, whatever the
\* modulated COV, the upper threshold and the binarized mean at the voxel.
C22_MaskIsBoolean ==
    GvDone("goodvoxels_mask") =>
        \A i \in Voxels : GvData("goodvoxels_mask")[i] \in {0, 10000}

\* init_goodvoxels_bold_mask_wf: the values of a second run that agrees with
\* this one on everything but the lower threshold, which it computes as x
WithLower(x) == [val EXCEPT ![<<"lower_thr_val", 0>>] = [f \in {"lower_thresh"} |-> x]]

\* lower thresholds a second run might compute
LowerTried ==
    {val[<<"lower_thr_val", 0>>]["lower_thresh"] + 1, 0, 10000, 20000, -20000}

\* C23: no path of connections leads from lower_thr_val to outputnode, and a
\* second run that differs from this one only in the value lower_thr_val
\* computed produces, node for node, what this run produced: every node other
\* than lower_thr_val, run on the inputs it is given in the second run, puts
\* out the same, and so goodvoxels_mask and goodvoxels_ribbon are the same.
C23_LowerThresholdUnused ==
    cfg.wf = "goodvoxels" =>
        /\ <<"outputnode", 0>> \notin graph.descendants[<<"lower_thr_val", 0>>]
        /\ (GvDone("outputnode") /\ GvDone("lower_thr_val")) =>
            \A x \in LowerTried :
                /\ \A ni \in graph.instances \ {<<"lower_thr_val", 0>>} :
                        st[ni] = "done" =>
                            Exec(cfg, graph.nodes[ni[1]],
                                 InputsOf(graph, WithLower(x), arrived, ni)).out = val[ni]
                /\ \A f \in {"goodvoxels_mask", "goodvoxels_ribbon"} :
                        InputsOf(graph, WithLower(x), arrived, <<"outputnode", 0>>)[f]
                            = val[<<"outputnode", 0>>][f]

\* C23 witness: both outputs are there, the lower threshold was computed and
\* differs from the upper one, and the mask leaves out one voxel and keeps
\* another, so a threshold does bear on it
C23_Witness ==
    /\ GvDone("outputnode") /\ GvDone("lower_thr_val")
    /\ val[<<"lower_thr_val", 0>>]["lower_thresh"] # Upper
    /\ {"goodvoxels_mask", "goodvoxels_ribbon"} \subseteq DOMAIN val[<<"outputnode", 0>>]
    /\ \E i, j \in Voxels :
            /\ InMask(GvData("goodvoxels_mask"), i)
            /\ ~InMask(GvData("goodvoxels_mask"), j)
            /\ GvData("cov_norm_modulate")[j] >= Upper

\* C24: in init_bold_fsLR_resampling_wf, for either grayord_density, the
\* template ROI that masks the resampled series in mask_fsLR has the mesh
\* density of the template sphere the series was resampled onto (32k for 91k,
\* 59k for 170k), so mask and series have the same number of vertices.
C24_TemplateMeshConsistency ==
    cfg.wf = "fsLR" =>
        \A b \in Branches :
            IsDone("mask_fsLR", b) =>
                LET given == calls[<<"mask_fsLR", b>>][1].inputs
                    sphere == given["in_file"].inputs["new_sphere"]
                IN  /\ given["in_file"].kind = "MetricResample"
                    /\ sphere.name = "sphere"
                    /\ sphere.density = fslr_density(cfg.grayord_density)
                    /\ given["mask"].name = "atlasroi"
                    /\ given["mask"].hemi = sphere.hemi
                    /\ given["mask"].density = sphere.density

\* the per-space resamplers of single images in init_bold_std_trans_wf
ImageResamplers == {"mask_std_tfm", "aseg_std_tfm", "aparc_std_tfm", "t2star_std_tfm"}

\* C25: with the transforms bound as documented, every image resampled into a
\* standard space is given a chain that starts in the frame the image is in:
\* the T2* map, supplied in BOLD native space, and the BOLD mask get the
\* chain [anatomical-to-standard, functional-to-anatomical affine], the
\* segmentations, supplied in the T1w frame, the anatomical-to-standard
\* transform alone.
C25_FrameTyping ==
    (cfg.wf = "std" /\ DocumentedFrames) =>
        \A b \in Branches : \A n \in ImageResamplers :
            IsDone(n, b) =>
                LET made == calls[<<n, b>>][1]
                    chain == made.transforms
                IN  /\ chain[Len(chain)].src = made.input.frame
                    /\ Continuous(chain)
                    /\ chain[1] = SelectedXfm(b)
                    /\ n \in {"mask_std_tfm", "t2star_std_tfm"} =>
                            chain = <<SelectedXfm(b)>> \o cfg.inputs["itk_bold_to_t1"].xs
                    /\ n \in {"aseg_std_tfm", "aparc_std_tfm"} =>
                            chain = <<SelectedXfm(b)>>

=============================================================================
